---------------------------- MODULE Spec2Model ----------------------------
(***************************************************************************)
(* Model of the economic solver of the Bitcoin post-reward simulator       *)
(* (src/unnamed/part_000: class BitcoinEconomicsModel and its helpers).    *)
(*                                                                         *)
(* Numbers.  The program computes with JavaScript numbers.  The model      *)
(* computes with exact rationals extended by the special values the        *)
(* program can produce: +Infinity, -Infinity, NaN and undefined (a missing *)
(* optional field).  A rational is a sign and two naturals (numerator and  *)
(* denominator) held as little-endian digit sequences in base 2^15, so     *)
(* that every intermediate product stays inside TLC's integers.  Every     *)
(* bracket bound and midpoint of the solver is a dyadic rational with at   *)
(* most 27 fractional bits and is represented exactly, as it is in a       *)
(* double.  Rounding of doubles (relative 2^-53) is not modelled, and      *)
(* neither is the sign of zero: +, -, * and / are exact.  Math.pow is      *)
(* exact for integer exponents; for an exponent that is half an odd        *)
(* integer (the default elasticity is -0.5) its square root is rounded     *)
(* down to about POW_SIGNIFICANT_BITS significant bits.                    *)
(***************************************************************************)
EXTENDS Integers, Sequences, FiniteSets, TLC

(***************************************************************************)
(* Naturals of any size: little-endian digit sequences, no leading zero    *)
(* digit, zero is the empty sequence.                                      *)
(***************************************************************************)
Base == 2^15

RECURSIVE NFromInt(_)
NFromInt(n) ==
  IF n = 0 THEN <<>> ELSE <<n % Base>> \o NFromInt(n \div Base)

RECURSIVE NNorm(_)
NNorm(a) ==
  IF a = <<>> THEN a
  ELSE IF a[Len(a)] = 0 THEN NNorm(SubSeq(a, 1, Len(a) - 1)) ELSE a

RECURSIVE NAddC(_, _, _)
NAddC(a, b, c) ==
  IF a = <<>> /\ b = <<>> THEN (IF c = 0 THEN <<>> ELSE <<c>>)
  ELSE IF b = <<>> /\ c = 0 THEN a
  ELSE IF a = <<>> /\ c = 0 THEN b
  ELSE LET x == (IF a = <<>> THEN 0 ELSE a[1]) + (IF b = <<>> THEN 0 ELSE b[1]) + c
       IN  <<x % Base>> \o NAddC(IF a = <<>> THEN a ELSE Tail(a),
                                 IF b = <<>> THEN b ELSE Tail(b), x \div Base)

NAdd(a, b) == NAddC(a, b, 0)

\* a - b for a >= b
RECURSIVE NSubB(_, _, _)
NSubB(a, b, br) ==
  IF a = <<>> THEN <<>>
  ELSE IF b = <<>> /\ br = 0 THEN a
  ELSE LET x == a[1] - (IF b = <<>> THEN 0 ELSE b[1]) - br
       IN  <<(x + Base) % Base>>
           \o NSubB(Tail(a), IF b = <<>> THEN b ELSE Tail(b), IF x < 0 THEN 1 ELSE 0)

NSub(a, b) == NNorm(NSubB(a, b, 0))

\* -1, 0, 1 as a < b, a = b, a > b
RECURSIVE NCmpAt(_, _, _)
NCmpAt(a, b, k) ==
  IF k = 0 THEN 0
  ELSE IF a[k] < b[k] THEN -1
  ELSE IF a[k] > b[k] THEN 1
  ELSE NCmpAt(a, b, k - 1)

NCmp(a, b) ==
  IF Len(a) < Len(b) THEN -1
  ELSE IF Len(a) > Len(b) THEN 1
  ELSE NCmpAt(a, b, Len(a))

RECURSIVE NMulD(_, _, _)
NMulD(a, d, c) ==
  IF a = <<>> THEN (IF c = 0 THEN <<>> ELSE <<c>>)
  ELSE LET x == a[1] * d + c
       IN  <<x % Base>> \o NMulD(Tail(a), d, x \div Base)

\* a * b for a # 0 and b # 0, one digit of b at a time
RECURSIVE NMulBy(_, _)
NMulBy(a, b) ==
  IF Len(b) = 1 THEN NMulD(a, b[1], 0)
  ELSE NAddC(IF b[1] = 0 THEN <<>> ELSE NMulD(a, b[1], 0),
             <<0>> \o NMulBy(a, Tail(b)), 0)

NMul(a, b) ==
  IF a = <<>> \/ b = <<>> THEN <<>>
  ELSE IF Len(b) > Len(a) THEN NMulBy(b, a) ELSE NMulBy(a, b)

\* number of trailing zero bits of a digit d > 0, and of a natural a > 0
RECURSIVE TzInt(_)
TzInt(d) == IF d % 2 = 1 THEN 0 ELSE 1 + TzInt(d \div 2)

RECURSIVE NTz(_)
NTz(a) == IF a[1] = 0 THEN 15 + NTz(Tail(a)) ELSE TzInt(a[1])

\* a div 2^t for 0 <= t < 15, digits taken from the most significant down
RECURSIVE NShrBits(_, _, _)
NShrBits(a, t, k) ==
  IF k > Len(a) THEN <<>>
  ELSE LET hiPart == IF k < Len(a) THEN (a[k + 1] % (2^t)) * (2^(15 - t)) ELSE 0
       IN  <<(a[k] \div (2^t)) + hiPart>> \o NShrBits(a, t, k + 1)

NShr(a, t) ==
  LET q == t \div 15
      r == t % 15
      cut == IF q >= Len(a) THEN <<>> ELSE SubSeq(a, q + 1, Len(a))
  IN  IF r = 0 THEN cut ELSE NNorm(NShrBits(cut, r, 1))


(***************************************************************************)
(* JavaScript numbers: k = "num" is the rational s * n / d (s the sign,    *)
(* -1, 0 or 1, n and d naturals, d > 0, common factors of two removed),    *)
(* k = "inf" is s * Infinity, k = "nan" is NaN and k = "undef" is          *)
(* undefined, the value of an optional field that is absent.               *)
(***************************************************************************)
Zero  == [k |-> "num", s |-> 0, n |-> <<>>, d |-> <<1>>]
NaN   == [k |-> "nan", s |-> 0, n |-> <<>>, d |-> <<1>>]
Undef == [k |-> "undef", s |-> 0, n |-> <<>>, d |-> <<1>>]
Inf(s) == [k |-> "inf", s |-> s, n |-> <<>>, d |-> <<1>>]
Infinity == Inf(1)

MinInt(x, y) == IF x < y THEN x ELSE y

\* s * n / d with the common factor 2^t removed
QShr(s, n, d, t) == [k |-> "num", s |-> s, n |-> NShr(n, t), d |-> NShr(d, t)]

QNorm(s, n, d) ==
  IF n = <<>> \/ s = 0 THEN Zero ELSE QShr(s, n, d, MinInt(NTz(n), NTz(d)))

\* the number a / b for integers a and b > 0
R(a, b) ==
  QNorm(IF a < 0 THEN -1 ELSE IF a = 0 THEN 0 ELSE 1,
        NFromInt(IF a < 0 THEN -a ELSE a), NFromInt(b))

One == R(1, 1)

\* ToNumber: undefined in an arithmetic operation is NaN, so every operator
\* treats the two kinds alike
NaNKinds == {"nan", "undef"}

FNeg(a) ==
  IF a.k \in NaNKinds THEN NaN ELSE [a EXCEPT !.s = -a.s]

FAbs(a) ==
  IF a.k \in NaNKinds THEN NaN ELSE [a EXCEPT !.s = IF a.s = 0 THEN 0 ELSE 1]

\* sa * x / d + sb * y / d for signs sa, sb that are not 0
QAddSigned(sa, x, sb, y, d) ==
  IF sa = sb THEN QNorm(sa, NAdd(x, y), d)
  ELSE IF NCmp(x, y) = 0 THEN Zero
  ELSE IF NCmp(x, y) = 1 THEN QNorm(sa, NSub(x, y), d)
  ELSE QNorm(sb, NSub(y, x), d)

FAdd(a, b) ==
  IF a.k \in NaNKinds \/ b.k \in NaNKinds THEN NaN
  ELSE IF a.k = "inf" THEN (IF b.k = "inf" /\ b.s # a.s THEN NaN ELSE a)
  ELSE IF b.k = "inf" THEN b
  ELSE IF a.s = 0 THEN b
  ELSE IF b.s = 0 THEN a
  ELSE IF a.d = b.d THEN QAddSigned(a.s, a.n, b.s, b.n, a.d)
  ELSE QAddSigned(a.s, NMul(a.n, b.d), b.s, NMul(b.n, a.d), NMul(a.d, b.d))

FSub(a, b) == FAdd(a, FNeg(b))

FMul(a, b) ==
  IF a.k \in NaNKinds \/ b.k \in NaNKinds THEN NaN
  ELSE IF a.k = "inf" \/ b.k = "inf"
       THEN (IF a.s = 0 \/ b.s = 0 THEN NaN ELSE Inf(a.s * b.s))
  ELSE IF a.s = 0 \/ b.s = 0 THEN Zero
  ELSE QNorm(a.s * b.s, NMul(a.n, b.n), NMul(a.d, b.d))

FDiv(a, b) ==
  IF a.k \in NaNKinds \/ b.k \in NaNKinds THEN NaN
  ELSE IF a.k = "inf"
       THEN (IF b.k = "inf" THEN NaN ELSE Inf(IF b.s = -1 THEN -a.s ELSE a.s))
  ELSE IF b.k = "inf" THEN Zero
  ELSE IF b.s = 0 THEN (IF a.s = 0 THEN NaN ELSE Inf(a.s))
  ELSE IF a.s = 0 THEN Zero
  ELSE QNorm(a.s * b.s, NMul(a.n, b.d), NMul(a.d, b.n))

\* -1, 0, 1 as a < b, a = b, a > b, for a and b that are not NaN
FCmp(a, b) ==
  IF a.k = "inf" \/ b.k = "inf"
  THEN LET x == IF a.k = "inf" THEN 2 * a.s ELSE a.s
           y == IF b.k = "inf" THEN 2 * b.s ELSE b.s
       IN  IF x < y THEN -1 ELSE IF x > y THEN 1
           ELSE IF a.k = "inf" /\ b.k = "inf" THEN 0
           ELSE IF a.k = "inf" THEN a.s ELSE -b.s
  ELSE IF a.s # b.s THEN (IF a.s < b.s THEN -1 ELSE 1)
  ELSE IF a.s = 0 THEN 0
  ELSE LET c == IF a.d = b.d THEN NCmp(a.n, b.n)
                ELSE NCmp(NMul(a.n, b.d), NMul(b.n, a.d))
       IN  a.s * c

Comparable(a, b) == a.k \notin NaNKinds /\ b.k \notin NaNKinds

\* the comparison operators: every comparison with NaN is false
FLt(a, b) == Comparable(a, b) /\ FCmp(a, b) = -1
FLe(a, b) == Comparable(a, b) /\ FCmp(a, b) # 1
FGt(a, b) == Comparable(a, b) /\ FCmp(a, b) = 1
FGe(a, b) == Comparable(a, b) /\ FCmp(a, b) # -1
FEq(a, b) == Comparable(a, b) /\ FCmp(a, b) = 0

\* Math.min and Math.max
FMin(a, b) ==
  IF ~Comparable(a, b) THEN NaN ELSE IF FCmp(a, b) = 1 THEN b ELSE a

FMax(a, b) ==
  IF ~Comparable(a, b) THEN NaN ELSE IF FCmp(a, b) = -1 THEN b ELSE a

RECURSIVE NPow(_, _)
NPow(a, m) == IF m = 0 THEN <<1>> ELSE NMul(a, NPow(a, m - 1))

\* the natural 2^b
NPow2(b) == [k \in 1..(b \div 15) + 1 |-> IF k = (b \div 15) + 1 THEN 2^(b % 15) ELSE 0]

\* number of bits of a digit and of a natural
RECURSIVE BitsInt(_)
BitsInt(d) == IF d = 0 THEN 0 ELSE 1 + BitsInt(d \div 2)

NBits(a) == IF a = <<>> THEN 0 ELSE 15 * (Len(a) - 1) + BitsInt(a[Len(a)])

\* The largest natural whose square is at most a, found four bits at a time
\* from the highest: r holds the bits found so far, all above bit b + 3, and
\* the next four are the largest x with (r + x * 2^b)^2 <= a.
NSqrtDigits == 0..15

NSqrtCandidate(r, x, b) == IF x = 0 THEN r ELSE NAdd(r, NMulD(NPow2(b), x, 0))

NSqrtFits(a, c) == NCmp(NMul(c, c), a) # 1

NSqrtChunk(a, r, b) ==
  CHOOSE x \in NSqrtDigits :
    /\ NSqrtFits(a, NSqrtCandidate(r, x, b))
    /\ x + 1 \in NSqrtDigits => ~NSqrtFits(a, NSqrtCandidate(r, x + 1, b))

\* When r = a (a is 1) r is the root; the test also has r evaluated before
\* the next bits are looked for, which keeps the evaluation shallow.
RECURSIVE NSqrtFrom(_, _, _)
NSqrtFrom(a, r, b) ==
  IF b < 0 \/ r = a THEN r
  ELSE NSqrtFrom(a, NSqrtCandidate(r, NSqrtChunk(a, r, b), b), b - 4)

NSqrt(a) ==
  IF a = <<>> THEN a ELSE NSqrtFrom(a, <<>>, 4 * ((NBits(a) \div 2) \div 4))

\* Math.pow and Math.sqrt return the double nearest the real result, which
\* has 53 significant bits; the model returns the real result rounded down
\* to about POW_SIGNIFICANT_BITS significant bits, a relative error below
\* 2^-(POW_SIGNIFICANT_BITS - 1)
POW_SIGNIFICANT_BITS == 32

\* the number of bits K by which the root of nd is scaled to have
\* POW_SIGNIFICANT_BITS bits
QSqrtShift(nd) == POW_SIGNIFICANT_BITS - (NBits(nd) + 1) \div 2

\* sqrt(nd) / d from the integer root of nd * 4^K
QSqrtScaled(nd, d, K) ==
  IF K >= 0
  THEN QNorm(1, NSqrt(NMul(nd, NPow2(2 * K))), NMul(d, NPow2(K)))
  ELSE QNorm(1, NMul(NSqrt(NShr(nd, 2 * (-K))), NPow2(-K)), d)

\* the square root of the rational n / d: sqrt(n * d) / d
QSqrtOfProduct(nd, d) == QSqrtScaled(nd, d, QSqrtShift(nd))

QSqrt(n, d) == QSqrtOfProduct(NMul(n, d), d)

\* r^m (s = 1) or r^(-m) (s = -1) for a rational r # 0 and a natural m
QPowInt(r, s, m) ==
  IF s = 1 THEN QNorm(IF r.s = -1 /\ m % 2 = 1 THEN -1 ELSE 1, NPow(r.n, m), NPow(r.d, m))
  ELSE QNorm(IF r.s = -1 /\ m % 2 = 1 THEN -1 ELSE 1, NPow(r.d, m), NPow(r.n, m))

\* r^(m/2) (s = 1) or r^(-m/2) (s = -1) for a rational r > 0 and an odd m
QPowHalf(r, s, m) ==
  FMul(QPowInt(r, s, (m - 1) \div 2),
       IF s = 1 THEN QSqrt(r.n, r.d) ELSE QSqrt(r.d, r.n))

\* the numerator of an exponent, of one digit
PowExponent(e) == IF e.n = <<>> THEN 0 ELSE e.n[1]

\* Math.pow(r, e) when r is NaN, 0 or infinite or e is NaN, 0 or infinite
PowIsSpecial(r, e) == e.k # "num" \/ e.s = 0 \/ r.k # "num" \/ r.s = 0

PowSpecial(r, e) ==
  IF e.k \in NaNKinds THEN NaN
  ELSE IF e.k = "num" /\ e.s = 0 THEN One
  ELSE IF r.k \in NaNKinds \/ e.k = "inf" THEN NaN
  ELSE IF r.k = "inf"
       THEN (IF e.s = 1
             THEN Inf(IF PowExponent(e) % 2 = 1 /\ e.d = <<1>> THEN r.s ELSE 1)
             ELSE Zero)
  ELSE IF e.s = 1 THEN Zero ELSE Infinity

\* Math.pow(r, e) for rationals r and e other than 0
QPow(r, e) ==
  CASE e.d = <<1>> -> QPowInt(r, e.s, PowExponent(e))
    [] e.d = <<2>> -> IF r.s = -1 THEN NaN ELSE QPowHalf(r, e.s, PowExponent(e))

\* Math.pow(r, e) for an exponent e that is an integer or half an odd integer,
\* of one digit
FPow(r, e) == IF PowIsSpecial(r, e) THEN PowSpecial(r, e) ELSE QPow(r, e)


(***************************************************************************)
(* The pure functions of BitcoinEconomicsModel.  An input record `inputs`  *)
(* has the fields of EconomicInputs; an optional field that is absent      *)
(* holds Undef.                                                            *)
(***************************************************************************)
BLOCKS_PER_DAY == 144
SATOSHIS_PER_BTC == 100000000

usd(btcAmount, btcPrice) == FMul(btcAmount, btcPrice)

blockLimitVb(blockLimitMB) == FMul(blockLimitMB, R(1000000, 1))

\* demandVbPerDay with the price response applied twice
demandVbPerDayDoubleResponse(feerate, inputs) ==
  LET batchingFactor ==
        IF inputs.batchingFactor.k = "undef" THEN One ELSE inputs.batchingFactor
      ratio == FDiv(feerate, inputs.baselineFeerate)
  IN  FMul(FDiv(inputs.baselineDemandVbDay, batchingFactor),
           FPow(ratio, FMul(R(2, 1), inputs.elasticity)))

demandVbPerDay(feerate, inputs) ==
  LET batchingFactor ==
        IF inputs.batchingFactor.k = "undef" THEN One ELSE inputs.batchingFactor
      ratio == FDiv(feerate, inputs.baselineFeerate)
  IN  FMul(FDiv(inputs.baselineDemandVbDay, batchingFactor),
           FPow(ratio, inputs.elasticity))

supplyVbPerDay(inputs) ==
  FMul(blockLimitVb(inputs.blockLimitMB), R(BLOCKS_PER_DAY, 1))

\* confirmedVbPerDay without the limit of the supply
confirmedVbPerDayUnclipped(feerate, inputs) == demandVbPerDay(feerate, inputs)

confirmedVbPerDay(feerate, inputs) ==
  FMin(demandVbPerDay(feerate, inputs), supplyVbPerDay(inputs))

feesBtcPerDay(feerate, inputs) ==
  FDiv(FMul(feerate, confirmedVbPerDay(feerate, inputs)), R(SATOSHIS_PER_BTC, 1))

feesUsdPerDay(feerate, inputs) ==
  usd(FDiv(FMul(feerate, confirmedVbPerDay(feerate, inputs)), R(SATOSHIS_PER_BTC, 1)),
      inputs.btcPrice)

\* the modes the switch of securityBudgetTargetUsd has a case for
SecurityBudgetModes ==
  {"absolute_usd", "percent_of_2025", "percent_of_settlement_value"}

\* securityBudgetTargetUsd with a default case that returns instead of throwing
ThrowsOnNoMode(inputs) == FALSE

\* securityBudgetTargetUsd throws on any other mode
ThrowsInvalidMode(inputs) == inputs.securityBudgetMode \notin SecurityBudgetModes

\* the value securityBudgetTargetUsd returns when it does not throw
securityBudgetTargetUsd(inputs) ==
  CASE inputs.securityBudgetMode = "absolute_usd" -> inputs.absoluteUsdDay
    [] inputs.securityBudgetMode = "percent_of_2025" ->
         FMul(inputs.alpha, inputs.base2025RevenueUsd)
    [] inputs.securityBudgetMode = "percent_of_settlement_value" ->
         FMul(inputs.beta, inputs.settlementUsdDay)
    [] OTHER -> Undef

equilibriumHashrateTH(feerate, rewardUsdDay, inputs) ==
  LET feeRevenue == FMul(feesUsdPerDay(feerate, inputs), FAdd(One, inputs.mevUplift))
      totalRevenue == FAdd(feeRevenue, rewardUsdDay)
  IN  FDiv(totalRevenue, FMul(inputs.costPerTHDay, FAdd(One, inputs.margin)))

attackCostUsd(hours, hashrateTH, rentRateUsdPerTHHour) ==
  LET attackerTH == FMul(R(51, 100), hashrateTH)
  IN  FMul(FMul(attackerTH, rentRateUsdPerTHHour), hours)

\* the confirmation time with the backlog in blocks left unconverted to minutes
ConfirmationTimeInBlocks(demand, supply, inputs) ==
  IF FLe(demand, supply) THEN R(10, 1)
  ELSE FMax(R(10, 1),
            FMul(FDiv(FAdd(inputs.backlogVb, FSub(demand, supply)), supply), R(10, 1)))

\* calculateConfirmationTime once demand and supply are computed
ConfirmationTime(demand, supply, inputs) ==
  IF FLe(demand, supply) THEN R(10, 1)
  ELSE FMax(R(10, 1),
            FMul(FMul(FDiv(FAdd(inputs.backlogVb, FSub(demand, supply)), supply),
                      R(10, 1)), R(60, 1)))

calculateConfirmationTime(feerate, inputs) ==
  ConfirmationTime(demandVbPerDay(feerate, inputs), supplyVbPerDay(inputs), inputs)

\* assertNearlyEqual warns (and does nothing else) when this holds
AssertionFails(actual, expected, tolerance) ==
  FGt(FAbs(FSub(actual, expected)), tolerance)


(***************************************************************************)
(* MiningEconomicsCalculator.calculateMiningMetrics, in stages: the        *)
(* parameters with their defaults, the revenue and the expenses of a day,  *)
(* and the three ratios with their sentinels.                              *)
(***************************************************************************)
\* a destructured parameter: its default when the caller leaves it out
OrDefault(a, default) == IF a.k = "undef" THEN default ELSE a

\* const dailyBlocks = blocksPerDay * (poolTH / networkTH)
MiningDailyBlocks(params) ==
  FMul(R(BLOCKS_PER_DAY, 1),
       FDiv(FDiv(params.poolHashrate, FMul(R(1000000, 1), R(1000000, 1))),
            FDiv(params.networkHashrate, FMul(R(1000000, 1), R(1000000, 1)))))

\* const dailyBTCRevenue = dailyBlocks * feesPerBlock, with
\* feesPerBlock = (avgFeeRate * blockSize) / 100000000
MiningDailyBTCRevenue(params) ==
  FMul(MiningDailyBlocks(params),
       FDiv(FMul(params.avgFeeRate, params.blockSize), R(SATOSHIS_PER_BTC, 1)))

\* const dailyElectricityPerTH = powerPerTH * 24 * electricityCost
MiningDailyElectricityPerTH(params) ==
  FMul(FMul(FDiv(OrDefault(params.powerConsumptionPerTH, R(25, 1)), R(1000, 1)),
            R(24, 1)),
       OrDefault(params.electricityCost, R(8, 100)))

\* const dailyExpensesPerTH: electricity, cooling (30% of it), depreciation
\* over 3 * 365 days, facility 0.1, staff 0.05, maintenance 2% a year
MiningDailyExpensesPerTH(hardwareCostPerTH, electricity) ==
  FAdd(FAdd(FAdd(FAdd(FAdd(electricity, FMul(electricity, R(3, 10))),
                      FDiv(hardwareCostPerTH, R(3 * 365, 1))),
                 R(1, 10)),
            R(5, 100)),
       FDiv(FMul(hardwareCostPerTH, R(2, 100)), R(365, 1)))

\* const dailyExpenses = dailyExpensesPerTH * poolTH
MiningDailyExpenses(params) ==
  FMul(MiningDailyExpensesPerTH(OrDefault(params.hardwareCostPerTH, R(25, 1)),
                                MiningDailyElectricityPerTH(params)),
       FDiv(params.poolHashrate, FMul(R(1000000, 1), R(1000000, 1))))

\* const totalHardwareCost = poolTH * hardwareCostPerTH
MiningTotalHardwareCost(params) ==
  FMul(FDiv(params.poolHashrate, FMul(R(1000000, 1), R(1000000, 1))),
       OrDefault(params.hardwareCostPerTH, R(25, 1)))

\* the profit margin without the test for a revenue
MiningProfitMarginUnguarded(dailyRevenue, dailyProfit) ==
  FMax(R(-1000, 1), FMin(R(1000, 1), FMul(FDiv(dailyProfit, dailyRevenue), R(100, 1))))

\* const profitMargin = dailyRevenue > 0
\*   ? Math.max(-1000, Math.min(1000, (dailyProfit / dailyRevenue) * 100)) : -100
MiningProfitMargin(dailyRevenue, dailyProfit) ==
  IF FGt(dailyRevenue, Zero)
  THEN FMax(R(-1000, 1), FMin(R(1000, 1), FMul(FDiv(dailyProfit, dailyRevenue), R(100, 1))))
  ELSE R(-100, 1)

\* const breakEvenPrice = dailyBTCRevenue > 0
\*   ? Math.min(10000000, dailyExpenses / dailyBTCRevenue) : Infinity
MiningBreakEvenPrice(dailyBTCRevenue, dailyExpenses) ==
  IF FGt(dailyBTCRevenue, Zero)
  THEN FMin(R(10000000, 1), FDiv(dailyExpenses, dailyBTCRevenue))
  ELSE Infinity

\* const roiMonths = dailyProfit > 0
\*   ? Math.min(1200, totalHardwareCost / (dailyProfit * 30)) : Infinity
MiningRoiMonths(dailyProfit, totalHardwareCost) ==
  IF FGt(dailyProfit, Zero)
  THEN FMin(R(1200, 1), FDiv(totalHardwareCost, FMul(dailyProfit, R(30, 1))))
  ELSE Infinity

\* the fields of the record returned that are computed from the revenue and
\* the expenses of a day
MiningRatios(dailyBTCRevenue, dailyRevenue, dailyExpenses, dailyProfit, totalHardwareCost) ==
  [dailyBTCRevenue |-> dailyBTCRevenue,
   dailyRevenue |-> dailyRevenue,
   dailyExpenses |-> dailyExpenses,
   dailyProfit |-> dailyProfit,
   totalHardwareCost |-> totalHardwareCost,
   profitMargin |-> MiningProfitMargin(dailyRevenue, dailyProfit),
   breakEvenPrice |-> MiningBreakEvenPrice(dailyBTCRevenue, dailyExpenses),
   roiMonths |-> MiningRoiMonths(dailyProfit, totalHardwareCost)]

(***************************************************************************)
(* solveFeerateForTarget, one definition per statement of its body.        *)
(***************************************************************************)
SEARCH_FLOOR == 1
SEARCH_CEILING == 100000
MAX_ITERATIONS == 100

tolerance == R(25, 10000)

\* the target with the MEV uplift multiplied in instead of divided out
TargetFeesUsdTimesUplift(inputs) ==
  FMul(securityBudgetTargetUsd(inputs), FAdd(One, inputs.mevUplift))

\* const targetFeesUsd = securityBudgetTarget / (1 + gamma)
TargetFeesUsd(inputs) ==
  FDiv(securityBudgetTargetUsd(inputs), FAdd(One, inputs.mevUplift))

\* const mid = (lo + hi) / 2
Midpoint(l, h) == FDiv(FAdd(l, h), R(2, 1))

\* const feesUsd = (mid * confirmedVbDay / SATOSHIS_PER_BTC) * inputs.btcPrice
SolverFeesUsd(mid, confirmedVbDay, inputs) ==
  FMul(FDiv(FMul(mid, confirmedVbDay), R(SATOSHIS_PER_BTC, 1)), inputs.btcPrice)

\* const gap = Math.abs(feesUsd - targetFeesUsd) / targetFeesUsd
RelativeGap(feesUsd, target) == FDiv(FAbs(FSub(feesUsd, target)), target)

\* the test for a better candidate turned round
ImprovesReversed(gap, best) == FGt(gap, best)

\* if (gap < bestGap)
Improves(gap, best) == FLt(gap, best)

\* the bracket update with the comparison turned round
MovesUpperBoundReversed(feesUsd, target) == FLe(feesUsd, target)

\* if (feesUsd >= targetFeesUsd) hi = mid else lo = mid
MovesUpperBound(feesUsd, target) == FGe(feesUsd, target)

\* the convergence test with its operands exchanged
ConvergedOperandsExchanged(l, h) == FLt(FSub(l, h), R(1, 1000))

\* the convergence test with a threshold ten times as wide
ConvergedAtCoarserWidth(l, h) == FLt(FSub(h, l), R(1, 100))

\* if (hi - lo < 0.001) break
Converged(l, h) == FLt(FSub(h, l), R(1, 1000))

\* the final gap taken unsigned, as the gap inside the loop is
FinalGapUnsigned(feesUsd, target) == FDiv(FAbs(FSub(feesUsd, target)), target)

\* const finalGap = (bestFeesUsd - targetFeesUsd) / targetFeesUsd
FinalGap(feesUsd, target) == FDiv(FSub(feesUsd, target), target)

\* targetMet: Math.abs(finalGap) <= tolerance
TargetMet(finalGap) == FLe(FAbs(finalGap), tolerance)

NoSolverResult ==
  [feerate |-> Undef, targetMet |-> FALSE, gap |-> Undef, actualRevenue |-> Undef,
   confirmedDemandMBDay |-> Undef, targetFeesUsd |-> Undef]


(***************************************************************************)
(* computeFullModel after the solver has returned.                         *)
(***************************************************************************)
\* a value is truthy unless it is undefined, NaN or 0
Truthy(a) == ~(a.k = "undef" \/ a.k = "nan" \/ (a.k = "num" /\ a.s = 0))

\* the reward of one block taken for the reward of a day
RewardUsdDayOfOneBlock(inputs, withRewards) ==
  usd(IF withRewards THEN R(3125, 1000) ELSE Zero, inputs.btcPrice)

\* const rewardUsdDay = usd(currentBlockReward * BLOCKS_PER_DAY, inputs.btcPrice)
RewardUsdDay(inputs, withRewards) ==
  LET currentBlockReward == IF withRewards THEN R(3125, 1000) ELSE Zero
  IN  usd(FMul(currentBlockReward, R(BLOCKS_PER_DAY, 1)), inputs.btcPrice)

\* const dailyFeeRevenueBTC = dailyFeeRevenueUSD / inputs.btcPrice
DailyFeeRevenueBTC(usdDay, inputs) == FDiv(usdDay, inputs.btcPrice)

\* const feesPerBlockUSD = dailyFeeRevenueUSD / BLOCKS_PER_DAY
FeesPerBlockUSD(usdDay) == FDiv(usdDay, R(BLOCKS_PER_DAY, 1))

\* the fees per block converted with the price multiplied in
FeesPerBlockBTCTimesPrice(feesPerBlockUSD, inputs) ==
  FMul(feesPerBlockUSD, inputs.btcPrice)

\* const feesPerBlockBTC = feesPerBlockUSD / inputs.btcPrice
FeesPerBlockBTC(feesPerBlockUSD, inputs) == FDiv(feesPerBlockUSD, inputs.btcPrice)

\* the expenses of the whole network taken for those of the pool
PoolDailyExpensesUSDOfNetwork(equilibrium, inputs) ==
  FMul(equilibrium, inputs.costPerTHDay)

\* the expenses of the pool with the miners' margin counted as a cost
PoolDailyExpensesUSDWithMargin(equilibrium, inputs) ==
  FMul(FMul(FMul(equilibrium, inputs.poolShare), inputs.costPerTHDay),
       FAdd(One, inputs.margin))

\* const poolDailyExpensesUSD =
\*   equilibriumHashrateTH * inputs.poolShare * inputs.costPerTHDay
PoolDailyExpensesUSD(equilibrium, inputs) ==
  FMul(FMul(equilibrium, inputs.poolShare), inputs.costPerTHDay)

\* the profit margin without its sentinel
PoolProfitMarginUnguarded(poolRev, poolExp) ==
  FDiv(FSub(poolRev, poolExp), poolRev)

\* const poolProfitMargin =
\*   poolDailyRevenueUSD > 0 ? (poolDailyProfitUSD / poolDailyRevenueUSD) : -1
PoolProfitMargin(poolRev, poolExp) ==
  IF FGt(poolRev, Zero) THEN FDiv(FSub(poolRev, poolExp), poolRev) ELSE R(-1, 1)

\* the break-even price without its sentinel
BreakEvenBTCPriceUnguarded(poolExp, usdDay, inputs) ==
  FDiv(poolExp, FMul(DailyFeeRevenueBTC(usdDay, inputs), inputs.poolShare))

\* const breakEvenBTCPrice = poolDailyExpensesUSD > 0 && dailyFeeRevenueBTC > 0
\*   ? (poolDailyExpensesUSD / (dailyFeeRevenueBTC * inputs.poolShare)) : Infinity
BreakEvenBTCPrice(poolExp, usdDay, inputs) ==
  IF FGt(poolExp, Zero) /\ FGt(DailyFeeRevenueBTC(usdDay, inputs), Zero)
  THEN FDiv(poolExp, FMul(DailyFeeRevenueBTC(usdDay, inputs), inputs.poolShare))
  ELSE Infinity

\* computeFullModel from the pool metrics on, and the record it returns
PoolOutputs(inputs, sr, confirmed, usdDay, demand, network, equilibrium, attack, poolRev, poolExp) ==
  [optimalFeerate |-> sr.feerate,
   dailyFeeRevenueBTC |-> DailyFeeRevenueBTC(usdDay, inputs),
   dailyFeeRevenueUSD |-> usdDay,
   feesPerBlockBTC |-> FeesPerBlockBTC(FeesPerBlockUSD(usdDay), inputs),
   avgFeePerTxUSD |->
     FMul(FDiv(FMul(sr.feerate, inputs.avgTxVb), R(SATOSHIS_PER_BTC, 1)), inputs.btcPrice),
   demandVbPerDay |-> demand,
   confirmedVbPerDay |-> confirmed,
   backlogVb |-> FMax(Zero, FSub(FAdd(inputs.backlogVb, demand), confirmed)),
   avgConfirmationTimeMin |-> calculateConfirmationTime(sr.feerate, inputs),
   equilibriumHashrateTH |-> equilibrium,
   networkRevenueUSD |-> network,
   securityBudgetTargetUSD |-> securityBudgetTargetUsd(inputs),
   attackCost6hUSD |-> attack,
   attackCostAsPercentOfSettlement |->
     IF Truthy(inputs.settlementUsdDay)
     THEN FMul(FDiv(attack, inputs.settlementUsdDay), R(100, 1)) ELSE Zero,
   poolDailyRevenueUSD |-> poolRev,
   poolDailyExpensesUSD |-> poolExp,
   poolDailyProfitUSD |-> FSub(poolRev, poolExp),
   poolProfitMargin |-> PoolProfitMargin(poolRev, poolExp),
   breakEvenBTCPrice |-> BreakEvenBTCPrice(poolExp, usdDay, inputs),
   hashrateSustainabilityRatio |->
     FDiv(equilibrium, FMul(R(400, 1), FMul(R(1000000, 1), R(1000000, 1)))),
   solverInfo |-> [targetMet |-> sr.targetMet, gap |-> sr.gap,
                   actualRevenue |-> sr.actualRevenue, targetFeesUsd |-> sr.targetFeesUsd],
   currentHashrateTH |-> FMul(R(400, 1), FMul(R(1000000, 1), R(1000000, 1)))]

\* computeFullModel from the equilibrium hashrate on
SecurityOutputs(inputs, sr, confirmed, usdDay, demand, network, equilibrium) ==
  PoolOutputs(inputs, sr, confirmed, usdDay, demand, network, equilibrium,
              attackCostUsd(R(6, 1), equilibrium,
                            IF Truthy(inputs.rentRateUsdPerTHHour)
                            THEN inputs.rentRateUsdPerTHHour ELSE R(6, 100)),
              FMul(network, inputs.poolShare),
              PoolDailyExpensesUSD(equilibrium, inputs))

\* the equilibrium hashrate with the miners' margin left out of the cost
EquilibriumOfRevenueWithoutMargin(network, inputs) ==
  FDiv(network, inputs.costPerTHDay)

\* const equilibriumHashrateTH =
\*   networkRevenueUSD / (inputs.costPerTHDay * (1 + inputs.margin))
EquilibriumOfRevenue(network, inputs) ==
  FDiv(network, FMul(inputs.costPerTHDay, FAdd(One, inputs.margin)))

\* computeFullModel from the network revenue on
MiningOutputs(inputs, sr, confirmed, usdDay, demand, network) ==
  SecurityOutputs(inputs, sr, confirmed, usdDay, demand, network,
                  EquilibriumOfRevenue(network, inputs))

\* computeFullModel from the daily fee revenue on
RevenueOutputs(inputs, withRewards, sr, confirmed, usdDay) ==
  MiningOutputs(inputs, sr, confirmed, usdDay, demandVbPerDay(sr.feerate, inputs),
                FAdd(FMul(usdDay, FAdd(One, inputs.mevUplift)),
                     RewardUsdDay(inputs, withRewards)))

\* const dailyFeeRevenueUSD =
\*   (optimalFeerate * confirmedVbPerDay / SATOSHIS_PER_BTC) * inputs.btcPrice
DailyFeeRevenueUSD(optimalFeerate, confirmed, inputs) ==
  FMul(FDiv(FMul(optimalFeerate, confirmed), R(SATOSHIS_PER_BTC, 1)), inputs.btcPrice)

\* computeFullModel from the confirmed volume on, with the block rewards
\* counted among the fees of the day
FeeOutputsWithRewardsAsFees(inputs, withRewards, sr, confirmed) ==
  RevenueOutputs(inputs, withRewards, sr, confirmed,
                 FAdd(DailyFeeRevenueUSD(sr.feerate, confirmed, inputs),
                      RewardUsdDay(inputs, withRewards)))

\* computeFullModel from the confirmed volume on
FeeOutputs(inputs, withRewards, sr, confirmed) ==
  RevenueOutputs(inputs, withRewards, sr, confirmed,
                 DailyFeeRevenueUSD(sr.feerate, confirmed, inputs))

\* the record computeFullModel returns, given what the solver returned
FullModelOutputs(inputs, withRewards, solverResult) ==
  FeeOutputs(inputs, withRewards, solverResult,
             confirmedVbPerDay(solverResult.feerate, inputs))

\* the labels of the assertNearlyEqual calls of computeFullModel that warn, given
\* the record o it returns
FullModelWarnings(inputs, o) ==
  (IF AssertionFails(o.dailyFeeRevenueUSD, o.solverInfo.targetFeesUsd, One)
   THEN {"Daily fees match solver target"} ELSE {})
  \cup
  (IF AssertionFails(FeesPerBlockUSD(o.dailyFeeRevenueUSD),
                     FDiv(o.dailyFeeRevenueUSD, R(BLOCKS_PER_DAY, 1)), R(1, 100))
   THEN {"Fees per block consistency"} ELSE {})
  \cup
  (IF AssertionFails(FMul(o.feesPerBlockBTC, inputs.btcPrice),
                     FeesPerBlockUSD(o.dailyFeeRevenueUSD), R(1, 100))
   THEN {"Block fees BTC/USD consistency"} ELSE {})
  \cup
  (IF AssertionFails(FMul(o.dailyFeeRevenueBTC, inputs.btcPrice), o.dailyFeeRevenueUSD,
                     R(1, 100))
   THEN {"Daily fees BTC/USD consistency"} ELSE {})
  \cup
  (IF AssertionFails(o.poolDailyRevenueUSD, FMul(o.networkRevenueUSD, inputs.poolShare),
                     R(1, 100))
   THEN {"Pool revenue calculation"} ELSE {})

NoOutputs == [optimalFeerate |-> Undef]

(***************************************************************************)
(* Input records.  getDefaultInputs is the record the application starts   *)
(* from; the records a behaviour draws change the demand curve, the MEV    *)
(* uplift and the security-budget policy.                                  *)
(***************************************************************************)
getDefaultInputs ==
  [btcPrice |-> R(100000, 1),
   blockLimitMB |-> R(4, 1),
   baselineFeerate |-> R(12, 1),
   baselineDemandVbDay |-> R(280000000, 1),
   elasticity |-> R(-1, 2),
   mevUplift |-> R(3, 100),
   costPerTHDay |-> R(15, 10),
   margin |-> R(107, 1000),
   poolShare |-> R(8, 1000),
   avgTxVb |-> R(210, 1),
   backlogVb |-> R(25000000, 1),
   securityBudgetMode |-> "percent_of_2025",
   alpha |-> R(65, 100),
   base2025RevenueUsd |-> FMul(FMul(R(100000, 1), R(3125, 1000)), R(144, 1)),
   beta |-> R(3, 1000),
   settlementUsdDay |-> FMul(R(8000, 1), R(1000000, 1)),
   absoluteUsdDay |-> R(25000000, 1),
   batchingFactor |-> R(115, 100),
   valuePerTxMultiplier |-> R(13, 10),
   rentRateUsdPerTHHour |-> R(6, 100)]


\* the security-budget policies drawn: mode and the fields the mode reads
Policy(mode, a, b, c) ==
  [securityBudgetMode |-> mode, alpha |-> a, beta |-> b, absoluteUsdDay |-> c]

Policies ==
  {Policy("percent_of_2025", R(65, 100), Undef, Undef),
   Policy("percent_of_2025", Undef, Undef, Undef),
   Policy("percent_of_settlement_value", Undef, R(3, 1000), Undef),
   Policy("fixed_usd", R(65, 100), R(3, 1000), R(25000000, 1)),
   Policy("absolute_usd", Undef, Undef, Undef)}
  \cup
  {Policy("absolute_usd", Undef, Undef, R(c, 1)) :
     c \in {-1000000, 0, 100000, 280000, 2000000, 3360000, 25000000}}
  \cup
  {Policy("absolute_usd", Undef, Undef, FMul(R(c, 1), R(1000000, 1))) :
     c \in {28000, 28028, 1000000}}

\* baseline demand (vB/day): below and above the daily supply of 576,000,000 vB
Demands == {R(280000000, 1), R(900000000, 1)}

Elasticities == {R(-2, 1), R(-1, 1), R(-1, 2), Zero}

Uplifts == {Zero, R(3, 100)}

WithPolicy(inputs, p) ==
  [inputs EXCEPT !.securityBudgetMode = p.securityBudgetMode,
                 !.alpha = p.alpha, !.beta = p.beta,
                 !.absoluteUsdDay = p.absoluteUsdDay]

\* the inputs of the scenario the application is documented with: the
\* default record without its optional fields other than those of its mode
ScenarioInputs ==
  [getDefaultInputs EXCEPT !.beta = Undef, !.settlementUsdDay = Undef,
                           !.absoluteUsdDay = Undef, !.batchingFactor = Undef,
                           !.valuePerTxMultiplier = Undef,
                           !.rentRateUsdPerTHHour = Undef]

\* the scenario with other pool shares (none, and twice the default) and with
\* no demand at all, which gives a day without fee revenue
PoolShares == {Zero, R(8, 1000), R(16, 1000)}

PoolInputs ==
  {[ScenarioInputs EXCEPT !.poolShare = s, !.baselineDemandVbDay = q] :
     s \in PoolShares, q \in {Zero, R(280000000, 1)}}

InputSet ==
  {WithPolicy([getDefaultInputs EXCEPT !.baselineDemandVbDay = q, !.elasticity = e,
                                       !.mevUplift = g, !.batchingFactor = Undef], p) :
     q \in Demands, e \in Elasticities, g \in Uplifts, p \in Policies}
  \cup PoolInputs \cup {getDefaultInputs}

(***************************************************************************)
(* State: the arguments of the call of computeFullModel in progress, the   *)
(* position in it (pc), the local variables of solveFeerateForTarget, what *)
(* the solver and computeFullModel return, and the warnings logged.        *)
(* calls counts the calls made, log lists what each finished call was      *)
(* given and what it returned, in order, and probe holds two evaluations   *)
(* of feesUsdPerDay on the same inputs.  evaluated is the history of the   *)
(* loop of the solver: the midpoint of each iteration so far with the fees,*)
(* the gap and the confirmed volume computed at it.  mining holds the      *)
(* parameters of a call of calculateMiningMetrics and, once the call has   *)
(* returned, the record it returned.  now is the clock Date.now() reads,   *)
(* ticks counts its advances, cache is the Map of the BitcoinAPI object,   *)
(* and pending holds the calls of getBitcoinPrice and getNetworkStats made *)
(* on it: where each one stands, the responses it has received, the number *)
(* of requests it has sent, whether the cache answered it and what it      *)
(* resolved to.                                                            *)
(***************************************************************************)
VARIABLES inputs, includeBlockRewards, pc, i, iterations, lo, hi,
          bestFeerate, bestGap, bestFeesUsd, bestDemand, targetFeesUsd,
          solverResult, outputs, warnings, calls, log, probe, evaluated, mining,
          now, ticks, cache, pending

solverLocals == <<i, iterations, lo, hi, bestFeerate, bestGap, bestFeesUsd,
                  bestDemand, targetFeesUsd, evaluated>>

callers == <<calls, log, probe>>

\* the state of the other modules of the application
elsewhere == <<mining, now, ticks, cache, pending>>

\* what computeFullModel and its callers leave alone
computing == <<inputs, includeBlockRewards, pc, solverLocals, solverResult, outputs,
               warnings, callers>>

vars == <<inputs, includeBlockRewards, pc, i, iterations, lo, hi,
          bestFeerate, bestGap, bestFeesUsd, bestDemand, targetFeesUsd,
          solverResult, outputs, warnings, calls, log, probe, evaluated, mining,
          now, ticks, cache, pending>>

NoProbe ==
  [f1 |-> Undef, f2 |-> Undef, fees1 |-> Undef, fees2 |-> Undef,
   demand1 |-> Undef, demand2 |-> Undef, confirmed1 |-> Undef, confirmed2 |-> Undef]

\* no call of calculateMiningMetrics
NoMetrics == [profitMargin |-> Undef]

NoMining == [params |-> [poolHashrate |-> Undef], metrics |-> NoMetrics]

(***************************************************************************)
(* BitcoinAPI: the cache and the two getters.  A response of a provider is *)
(* an error (network failure or timeout) or a body, of which the model     *)
(* keeps the numbers the code reads; 0 stands for a number that is absent. *)
(***************************************************************************)
CACHE_TTL == 30000

FallbackPrice == 100000

\* the calls that can be in progress at once
Slots == 1..2

NoResponse == [status |-> "none", price |-> 0, count |-> 0, fee |-> 0, height |-> 0]

ErrorResponse == [NoResponse EXCEPT !.status = "error"]

\* answers of CoinGecko: an error, a price that fails the validation and
\* one that passes it
CoinGeckoResponses ==
  {ErrorResponse} \cup {[NoResponse EXCEPT !.status = "ok", !.price = v] :
                           v \in {1000, 60000}}

\* answers of Coinbase, after parseFloat: an error, no price and a price
\* that passes the validation
CoinbaseResponses ==
  {ErrorResponse} \cup {[NoResponse EXCEPT !.status = "ok", !.price = v] :
                           v \in {0, 61000}}

MempoolResponses ==
  {ErrorResponse, [NoResponse EXCEPT !.status = "ok", !.count = 42000, !.fee = 15]}

BlockstreamResponses ==
  {ErrorResponse, [NoResponse EXCEPT !.status = "ok"],
   [NoResponse EXCEPT !.status = "ok", !.height = 900000]}

\* let networkData = { mempoolSize: 35000, avgFeeRate: 12, ..., blockHeight: 875000 }
DefaultNetworkData == [mempoolSize |-> 35000, avgFeeRate |-> 12, blockHeight |-> 875000]

NoEntry == [present |-> FALSE, data |-> 0, timestamp |-> 0]

NoCall ==
  [pc |-> "idle", key |-> "none", requests |-> 0, fromCache |-> FALSE,
   first |-> NoResponse, second |-> NoResponse, result |-> 0]

\* getCached: the entry of the key when there is one younger than CACHE_TTL
EntryIsFreshAtOrBelowTTL(entry, time) ==
  entry.present /\ time - entry.timestamp <= CACHE_TTL

EntryIsFresh(entry, time) ==
  entry.present /\ time - entry.timestamp < CACHE_TTL

\* if (price && price > 1000), without the comparison
PriceIsPresent(response) == response.status = "ok" /\ response.price # 0

\* if (price && price > 1000)
PriceIsValid(response) ==
  response.status = "ok" /\ response.price # 0 /\ response.price > 1000

\* this.cache.set(key, { data, timestamp: Date.now() })
setCache(key, data) ==
  cache' = [cache EXCEPT ![key] = [present |-> TRUE, data |-> data, timestamp |-> now]]

\* mempool.count || networkData.mempoolSize, and the like
OrElse(value, default) == IF value # 0 THEN value ELSE default

InitApi ==
  /\ now = 0
  /\ ticks = 0
  /\ cache = [key \in {"price", "network"} |-> NoEntry]
  /\ pending = [c \in Slots |-> NoCall]

InitElsewhere == mining = NoMining /\ InitApi

InitLocals ==
  /\ pc = "idle"
  /\ i = 0
  /\ iterations = 0
  /\ lo = Undef
  /\ hi = Undef
  /\ bestFeerate = Undef
  /\ bestGap = Undef
  /\ bestFeesUsd = Undef
  /\ bestDemand = Undef
  /\ targetFeesUsd = Undef
  /\ solverResult = NoSolverResult
  /\ outputs = NoOutputs
  /\ warnings = {}
  /\ calls = 1
  /\ log = <<>>
  /\ probe = NoProbe
  /\ evaluated = <<>>

Init ==
  /\ inputs \in InputSet
  /\ includeBlockRewards \in BOOLEAN
  /\ InitLocals
  /\ InitElsewhere

\* the declarations of solveFeerateForTarget before its loop, with the best
\* candidate of an earlier call kept instead of declared afresh
SolverSetupKeepingBest ==
  /\ targetFeesUsd' = TargetFeesUsd(inputs)
  /\ lo' = R(SEARCH_FLOOR, 1)
  /\ hi' = R(SEARCH_CEILING, 1)
  /\ bestFeerate' = IF calls = 1 THEN R(SEARCH_CEILING, 1) ELSE bestFeerate
  /\ bestGap' = IF calls = 1 THEN Infinity ELSE bestGap
  /\ bestFeesUsd' = IF calls = 1 THEN Zero ELSE bestFeesUsd
  /\ bestDemand' = IF calls = 1 THEN Zero ELSE bestDemand
  /\ i' = 0
  /\ iterations' = 0
  /\ evaluated' = <<>>

\* the declarations of solveFeerateForTarget before its loop: every call
\* starts from new local variables
SolverSetup ==
  /\ targetFeesUsd' = TargetFeesUsd(inputs)
  /\ lo' = R(SEARCH_FLOOR, 1)
  /\ hi' = R(SEARCH_CEILING, 1)
  /\ bestFeerate' = R(SEARCH_CEILING, 1)
  /\ bestGap' = Infinity
  /\ bestFeesUsd' = Zero
  /\ bestDemand' = Zero
  /\ i' = 0
  /\ iterations' = 0
  /\ evaluated' = <<>>

\* computeFullModel is entered and calls solveFeerateForTarget, whose first
\* statement is the call of securityBudgetTargetUsd: that call throws, and the
\* error leaves both functions, or the solver sets up its search.
Call ==
  /\ pc = "idle"
  /\ IF ThrowsInvalidMode(inputs)
     THEN /\ pc' = "threw"
          /\ UNCHANGED solverLocals
     ELSE /\ pc' = "loop"
          /\ SolverSetup
  /\ UNCHANGED <<inputs, includeBlockRewards, solverResult, outputs, warnings, callers, elsewhere>>

\* one iteration of the for loop of solveFeerateForTarget
LoopIteration ==
  /\ pc = "loop"
  /\ i < MAX_ITERATIONS
  /\ \E mid \in {Midpoint(lo, hi)} :
     \E confirmedVbDay \in {confirmedVbPerDay(mid, inputs)} :
     \E feesUsd \in {SolverFeesUsd(mid, confirmedVbDay, inputs)} :
     \E gap \in {RelativeGap(feesUsd, targetFeesUsd)} :
     \E better \in {Improves(gap, bestGap)} :
     \E up \in {MovesUpperBound(feesUsd, targetFeesUsd)} :
     \E stop \in {Converged(IF up THEN lo ELSE mid, IF up THEN mid ELSE hi)} :
       /\ bestFeerate' = IF better THEN mid ELSE bestFeerate
       /\ bestGap' = IF better THEN gap ELSE bestGap
       /\ bestFeesUsd' = IF better THEN feesUsd ELSE bestFeesUsd
       /\ bestDemand' = IF better THEN FDiv(confirmedVbDay, R(1000000, 1)) ELSE bestDemand
       /\ lo' = IF up THEN lo ELSE mid
       /\ hi' = IF up THEN mid ELSE hi
       /\ iterations' = iterations + 1
       /\ evaluated' = Append(evaluated,
                              [mid |-> mid, feesUsd |-> feesUsd, gap |-> gap,
                               confirmedVbDay |-> confirmedVbDay])
       /\ i' = IF stop THEN i ELSE i + 1
       /\ pc' = IF stop \/ i + 1 >= MAX_ITERATIONS THEN "return" ELSE "loop"
  /\ UNCHANGED <<inputs, includeBlockRewards, targetFeesUsd, solverResult, outputs,
                 warnings, callers, elsewhere>>

\* the statements of solveFeerateForTarget after the loop
SolverReturn ==
  /\ pc = "return"
  /\ \E finalGap \in {FinalGap(bestFeesUsd, targetFeesUsd)} :
       solverResult' =
         [feerate |-> bestFeerate,
          targetMet |-> TargetMet(finalGap),
          gap |-> finalGap,
          actualRevenue |-> FMul(bestFeesUsd, FAdd(One, inputs.mevUplift)),
          confirmedDemandMBDay |-> bestDemand,
          targetFeesUsd |-> targetFeesUsd]
  /\ pc' = "solved"
  /\ UNCHANGED <<inputs, includeBlockRewards, solverLocals, outputs, warnings, callers, elsewhere>>

\* the rest of computeFullModel, were assertNearlyEqual to throw rather than warn
FullModelReturnAssertionThrows ==
  /\ pc = "solved"
  /\ \E o \in {FullModelOutputs(inputs, includeBlockRewards, solverResult)} :
       \E w \in {FullModelWarnings(inputs, o)} :
         /\ warnings' = w
         /\ outputs' = IF w = {} THEN o ELSE outputs
         /\ pc' = IF w = {} THEN "done" ELSE "threw"
  /\ UNCHANGED <<inputs, includeBlockRewards, solverLocals, solverResult, callers, elsewhere>>

\* the rest of computeFullModel
FullModelReturn ==
  /\ pc = "solved"
  /\ \E o \in {FullModelOutputs(inputs, includeBlockRewards, solverResult)} :
       /\ outputs' = o
       /\ warnings' = FullModelWarnings(inputs, o)
  /\ pc' = "done"
  /\ UNCHANGED <<inputs, includeBlockRewards, solverLocals, solverResult, callers, elsewhere>>

Next == Call \/ LoopIteration \/ SolverReturn \/ FullModelReturn

Spec == Init /\ [][Next]_vars

(***************************************************************************)
(* Several calls, one after the other, as the page makes them: the same    *)
(* inputs with and without block rewards, and other inputs in between.     *)
(* What a finished call leaves in the variables stays there when the next  *)
(* call starts; only the statements of the next call change it.            *)
(***************************************************************************)
MaxCalls == 3

CallInputsOneShare ==
  {x \in InputSet :
     /\ FEq(x.baselineDemandVbDay, R(280000000, 1))
     /\ FEq(x.mevUplift, R(3, 100))
     /\ \/ x.securityBudgetMode = "fixed_usd" /\ FEq(x.elasticity, R(-1, 1))
        \/ x.securityBudgetMode = "absolute_usd" /\ FEq(x.absoluteUsdDay, R(2000000, 1))
           /\ FLe(x.elasticity, R(-1, 1))}

\* the same inputs, and one of them with twice its pool share
CallInputs ==
  CallInputsOneShare
  \cup {[x EXCEPT !.poolShare = FMul(R(2, 1), x.poolShare)] :
          x \in {y \in CallInputsOneShare : y.securityBudgetMode = "absolute_usd"
                                            /\ FEq(y.elasticity, R(-1, 1))}}

\* what the call that has finished was given and what it returned
Returned == pc \in {"done", "threw"}

CallRecord ==
  [inputs |-> inputs, includeBlockRewards |-> includeBlockRewards,
   threw |-> pc = "threw",
   outputs |-> IF pc = "threw" THEN NoOutputs ELSE outputs]

\* the caller takes the result and calls computeFullModel again
CallAgain ==
  /\ Returned
  /\ calls < MaxCalls
  /\ log' = Append(log, CallRecord)
  /\ calls' = calls + 1
  /\ \E x \in CallInputs, b \in BOOLEAN :
       /\ inputs' = x
       /\ includeBlockRewards' = b
  /\ pc' = "idle"
  /\ UNCHANGED <<solverLocals, solverResult, outputs, warnings, probe, elsewhere>>

InitCalls ==
  /\ inputs \in CallInputs
  /\ includeBlockRewards \in BOOLEAN
  /\ InitLocals
  /\ InitElsewhere

NextCalls == Call \/ LoopIteration \/ SolverReturn \/ FullModelReturn \/ CallAgain

SpecCalls == InitCalls /\ [][NextCalls]_vars

(***************************************************************************)
(* feesUsdPerDay on its own: two feerates of the search range, the lower   *)
(* first, evaluated on the same inputs.                                    *)
(***************************************************************************)
Feerates ==
  {R(1, 1), R(2, 1), R(35, 6), R(8, 1), R(12, 1), R(15, 1), R(100, 1),
   R(100001, 2), R(100000, 1)}

FeeInputs ==
  {[x EXCEPT !.blockLimitMB = b] :
     x \in {y \in InputSet : y.securityBudgetMode = "percent_of_settlement_value"
                             /\ y.mevUplift = Zero},
     b \in {R(1, 1), R(4, 1)}}

EvaluateFees ==
  /\ pc = "idle"
  /\ probe = NoProbe
  /\ \E f1 \in Feerates, f2 \in Feerates :
       /\ FLe(f1, f2)
       /\ probe' = [f1 |-> f1, f2 |-> f2,
                    fees1 |-> feesUsdPerDay(f1, inputs),
                    fees2 |-> feesUsdPerDay(f2, inputs),
                    demand1 |-> demandVbPerDay(f1, inputs),
                    demand2 |-> demandVbPerDay(f2, inputs),
                    confirmed1 |-> confirmedVbPerDay(f1, inputs),
                    confirmed2 |-> confirmedVbPerDay(f2, inputs)]
  /\ UNCHANGED <<inputs, includeBlockRewards, pc, solverLocals, solverResult, outputs,
                 warnings, calls, log, elsewhere>>

InitFees ==
  /\ inputs \in FeeInputs
  /\ includeBlockRewards = FALSE
  /\ InitLocals
  /\ InitElsewhere

NextFees == EvaluateFees

SpecFees == InitFees /\ [][NextFees]_vars

(***************************************************************************)
(* calculateMiningMetrics on its own: one call on parameters as the charts *)
(* pass them (a pool of 0.5% or 10% of the network, the price and the fee  *)
(* rate of the simulation, a block size), with the cost parameters left to *)
(* their defaults or set to zero.                                          *)
(***************************************************************************)
\* the hashrate getNetworkStats reports by default, 750e18 H/s
NetworkHashrate ==
  FMul(R(750, 1), FMul(R(1000000, 1), FMul(R(1000000, 1), R(1000000, 1))))

\* the price at which the expenses of the default pool are twice its revenue
\* from blocks of 4000000 bytes at 12 sat/vB: 971542500 / 1095 USD of
\* expenses a day over 2 * 0.3456 BTC
PriceOfHalfCover == FDiv(R(971542500, 1), FMul(R(1095, 1), R(6912, 10000)))

MiningPrices == {R(50000, 1), R(100000, 1), R(250000, 1), PriceOfHalfCover}

MiningFeeRates == {Zero, R(12, 1), R(120, 1), R(2400, 1)}

MiningParams ==
  {[poolHashrate |-> FMul(NetworkHashrate, share), networkHashrate |-> NetworkHashrate,
    btcPrice |-> price, avgFeeRate |-> fee, blockSize |-> size,
    electricityCost |-> cost, hardwareCostPerTH |-> cost,
    powerConsumptionPerTH |-> Undef] :
     share \in {R(5, 1000), R(1, 10)}, price \in MiningPrices, fee \in MiningFeeRates,
     size \in {R(1000000, 1), R(4000000, 1)}, cost \in {Undef, Zero}}

CalculateMiningMetrics ==
  /\ mining.metrics = NoMetrics
  /\ \E dailyBTCRevenue \in {MiningDailyBTCRevenue(mining.params)} :
     \E dailyRevenue \in {FMul(dailyBTCRevenue, mining.params.btcPrice)} :
     \E dailyExpenses \in {MiningDailyExpenses(mining.params)} :
     \E dailyProfit \in {FSub(dailyRevenue, dailyExpenses)} :
     \E totalHardwareCost \in {MiningTotalHardwareCost(mining.params)} :
       mining' = [mining EXCEPT !.metrics =
                    MiningRatios(dailyBTCRevenue, dailyRevenue, dailyExpenses,
                                 dailyProfit, totalHardwareCost)]
  /\ UNCHANGED <<computing, now, ticks, cache, pending>>

InitMining ==
  /\ inputs = getDefaultInputs
  /\ includeBlockRewards = FALSE
  /\ InitLocals
  /\ InitApi
  /\ mining \in {[params |-> p, metrics |-> NoMetrics] : p \in MiningParams}

NextMining == CalculateMiningMetrics

SpecMining == InitMining /\ [][NextMining]_vars

(***************************************************************************)
(* The BitcoinAPI object in use: calls of getBitcoinPrice and of           *)
(* getNetworkStats start at any time, two at most being in progress (the   *)
(* page polls every 15 s and a request may take 8 s, and the route serves  *)
(* requests concurrently); each runs up to its next await in one step, the *)
(* providers answer in any order, and the clock advances in between.       *)
(***************************************************************************)
MaxTicks == 2

\* advances of the clock, in ms: to the edge of the time to live and over it
Advances == {1, CACHE_TTL - 1}

Tick ==
  /\ ticks < MaxTicks
  /\ \E d \in Advances : now' = now + d
  /\ ticks' = ticks + 1
  /\ UNCHANGED <<computing, mining, cache, pending>>

\* a call of a getter up to its first await: the cached value is returned, or
\* the request to the first provider is sent
StartCall(c, key) ==
  /\ pending[c].pc \in {"idle", "resolved"}
  /\ pending' =
       [pending EXCEPT ![c] =
          IF EntryIsFresh(cache[key], now)
          THEN [NoCall EXCEPT !.pc = "resolved", !.key = key, !.fromCache = TRUE,
                              !.result = cache[key].data]
          ELSE [NoCall EXCEPT !.pc = "first", !.key = key, !.requests = 1]]
  /\ UNCHANGED <<computing, mining, now, ticks, cache>>

\* getBitcoinPrice from the answer of CoinGecko to the next await or return
CoinGeckoResponds(c) ==
  /\ pending[c].pc = "first"
  /\ pending[c].key = "price"
  /\ \E response \in CoinGeckoResponses :
       IF PriceIsValid(response)
       THEN /\ setCache("price", response.price)
            /\ pending' = [pending EXCEPT ![c].pc = "resolved", ![c].first = response,
                                          ![c].result = response.price]
       ELSE /\ pending' = [pending EXCEPT ![c].pc = "second", ![c].first = response,
                                          ![c].requests = @ + 1]
            /\ UNCHANGED cache
  /\ UNCHANGED <<computing, mining, now, ticks>>

\* getBitcoinPrice from the answer of Coinbase to its return
CoinbaseResponds(c) ==
  /\ pending[c].pc = "second"
  /\ pending[c].key = "price"
  /\ \E response \in CoinbaseResponses :
       IF PriceIsValid(response)
       THEN /\ setCache("price", response.price)
            /\ pending' = [pending EXCEPT ![c].pc = "resolved", ![c].second = response,
                                          ![c].result = response.price]
       ELSE /\ pending' = [pending EXCEPT ![c].pc = "resolved", ![c].second = response,
                                          ![c].result = FallbackPrice]
            /\ UNCHANGED cache
  /\ UNCHANGED <<computing, mining, now, ticks>>

\* getNetworkStats from the answer of mempool.space to the next await
MempoolResponds(c) ==
  /\ pending[c].pc = "first"
  /\ pending[c].key = "network"
  /\ \E response \in MempoolResponses :
       pending' = [pending EXCEPT ![c].pc = "second", ![c].first = response,
                                  ![c].requests = @ + 1]
  /\ UNCHANGED <<computing, mining, now, ticks, cache>>

\* the networkData of getNetworkStats after the two answers
NetworkData(mempool, blockstream) ==
  [mempoolSize |-> IF mempool.status = "ok"
                   THEN OrElse(mempool.count, DefaultNetworkData.mempoolSize)
                   ELSE DefaultNetworkData.mempoolSize,
   avgFeeRate |-> IF mempool.status = "ok"
                  THEN OrElse(mempool.fee, DefaultNetworkData.avgFeeRate)
                  ELSE DefaultNetworkData.avgFeeRate,
   blockHeight |-> IF blockstream.status = "ok"
                   THEN OrElse(blockstream.height, DefaultNetworkData.blockHeight)
                   ELSE DefaultNetworkData.blockHeight]

\* getNetworkStats from the answer of blockstream.info to its return
BlockstreamResponds(c) ==
  /\ pending[c].pc = "second"
  /\ pending[c].key = "network"
  /\ \E response \in BlockstreamResponses :
       /\ setCache("network", NetworkData(pending[c].first, response))
       /\ pending' = [pending EXCEPT ![c].pc = "resolved", ![c].second = response,
                                     ![c].result = NetworkData(pending[c].first, response)]
  /\ UNCHANGED <<computing, mining, now, ticks>>

InitBitcoinAPI ==
  /\ inputs = getDefaultInputs
  /\ includeBlockRewards = FALSE
  /\ InitLocals
  /\ InitElsewhere

NextBitcoinAPI ==
  \/ Tick
  \/ \E c \in Slots : StartCall(c, "price")
  \/ \E c \in Slots : StartCall(c, "network")
  \/ \E c \in Slots : CoinGeckoResponds(c)
  \/ \E c \in Slots : CoinbaseResponds(c)
  \/ \E c \in Slots : MempoolResponds(c)
  \/ \E c \in Slots : BlockstreamResponds(c)

SpecBitcoinAPI == InitBitcoinAPI /\ [][NextBitcoinAPI]_vars

(***************************************************************************)
(* Properties.  Solved says that solveFeerateForTarget has returned in the *)
(* call in progress; its result is solverResult.                           *)
(***************************************************************************)
Solved == pc \in {"solved", "done"}

\* the same value: equal numbers, or both NaN, both undefined
SameValue(a, b) == FEq(a, b) \/ (a.k = b.k /\ a.k \in {"nan", "undef"})

BracketWidthBelowThreshold == FLt(FSub(hi, lo), R(1, 1000))

(***************************************************************************)
(* Whether feesUsdPerDay reaches a target on [1, 100000].  feesUsdPerDay   *)
(* is price / 1e8 times the smaller of f * supply, which grows with f, and *)
(* f * demand(f), a power of f, which grows, is constant or falls.  So it  *)
(* is at least the target somewhere on the range exactly when it is at the *)
(* ceiling or at the pivot, the feerate at which full blocks pay the       *)
(* target (moved into the range); and its least value on the range is at   *)
(* the floor or at the ceiling.  feesUsdPerDay is continuous, so it takes  *)
(* every value between.                                                    *)
(***************************************************************************)
PivotFeerate(x) ==
  FMax(R(SEARCH_FLOOR, 1),
       FMin(R(SEARCH_CEILING, 1),
            FDiv(FMul(TargetFeesUsd(x), R(SATOSHIS_PER_BTC, 1)),
                 FMul(x.btcPrice, supplyVbPerDay(x)))))

ReachesTarget(x) ==
  \/ FGe(feesUsdPerDay(R(SEARCH_CEILING, 1), x), TargetFeesUsd(x))
  \/ FGe(feesUsdPerDay(PivotFeerate(x), x), TargetFeesUsd(x))

StartsAtOrBelowTarget(x) ==
  \/ FLe(feesUsdPerDay(R(SEARCH_FLOOR, 1), x), TargetFeesUsd(x))
  \/ FLe(feesUsdPerDay(R(SEARCH_CEILING, 1), x), TargetFeesUsd(x))

TargetAttained(x) ==
  ~ThrowsInvalidMode(x) /\ ReachesTarget(x) /\ StartsAtOrBelowTarget(x)

TargetUnreachable(x) ==
  /\ ~ThrowsInvalidMode(x)
  /\ FLt(feesUsdPerDay(R(SEARCH_CEILING, 1), x), TargetFeesUsd(x))
  /\ FLt(feesUsdPerDay(PivotFeerate(x), x), TargetFeesUsd(x))

\* the relative gap of the fees at feerate f to the target of inputs x
GapAt(f, x) ==
  FDiv(FSub(feesUsdPerDay(f, x), TargetFeesUsd(x)), TargetFeesUsd(x))

\* C1 as stated: whenever the target fees are attained by feesUsdPerDay at
\* some feerate in [1, 100000], the solver returns targetMet = true and a gap
\* of absolute value at most 0.0025.
C1_AttainedTargetIsMet ==
  (Solved /\ TargetAttained(inputs))
    => (solverResult.targetMet /\ FLe(FAbs(solverResult.gap), R(25, 10000)))

\* C1 amended: whenever the target fees are attained by feesUsdPerDay at some
\* feerate in [1, 100000] and the elasticity is between -1 and 0, the solver
\* returns targetMet = true and a gap of absolute value at most 0.0025.
C1_AttainedTargetIsMetWhenMonotone ==
  (Solved /\ TargetAttained(inputs)
     /\ FGe(inputs.elasticity, R(-1, 1)) /\ FLe(inputs.elasticity, Zero))
    => (solverResult.targetMet /\ FLe(FAbs(solverResult.gap), R(25, 10000)))

C1_Witness ==
  /\ Solved
  /\ TargetAttained(inputs)
  /\ FEq(inputs.elasticity, R(-1, 2))
  /\ solverResult.targetMet
  /\ ~FEq(solverResult.gap, Zero)
  /\ iterations = 27

\* C2 as stated: when feesUsdPerDay stays below the target fees over the whole
\* range, the solver returns the ceiling 100000 as feerate, targetMet = false
\* and a positive gap.
C2_UnreachableReturnsCeiling ==
  (Solved /\ TargetUnreachable(inputs))
    => /\ FEq(solverResult.feerate, R(SEARCH_CEILING, 1))
       /\ ~solverResult.targetMet
       /\ FGt(solverResult.gap, Zero)

\* C2 amended: when feesUsdPerDay stays below the target fees over the whole
\* range, the solver returns a midpoint it evaluated, at least 50000.5 and
\* below the ceiling (less than 0.001 below it when the elasticity is above
\* -1 and the baseline demand is positive), and the gap of the fees at that
\* feerate, which is negative; targetMet is false exactly when that gap is
\* below -0.0025.
C2_UnreachableReturnsBestMidpoint ==
  (Solved /\ TargetUnreachable(inputs))
    => /\ FGe(solverResult.feerate, FDiv(R(SEARCH_FLOOR + SEARCH_CEILING, 1), R(2, 1)))
       /\ FLt(solverResult.feerate, R(SEARCH_CEILING, 1))
       /\ (FGt(inputs.elasticity, R(-1, 1)) /\ FGt(inputs.baselineDemandVbDay, Zero))
            => FLt(FSub(R(SEARCH_CEILING, 1), solverResult.feerate), R(1, 1000))
       /\ FEq(solverResult.gap, GapAt(solverResult.feerate, inputs))
       /\ FLt(solverResult.gap, Zero)
       /\ solverResult.targetMet <=> FGe(solverResult.gap, R(-25, 10000))

C2_Witness ==
  /\ Solved
  /\ TargetUnreachable(inputs)
  /\ FEq(solverResult.feerate, R(100001, 2))
  /\ FLt(solverResult.gap, R(-1, 2))
  /\ ~solverResult.targetMet

\* C3: when the target fees are zero or negative, the solver returns a feerate
\* near the search floor, not one in the upper part of the range; stated here
\* in its weakest reading, a feerate below the middle of the range.
C3_NonPositiveTargetNearFloor ==
  (Solved /\ FLe(solverResult.targetFeesUsd, Zero))
    => FLt(solverResult.feerate, FDiv(R(SEARCH_FLOOR + SEARCH_CEILING, 1), R(2, 1)))

\* C4: for every input record the loop of the solver makes at most 100
\* iterations, makes no iteration once hi - lo < 0.001, can always make its
\* next step, and the solver returns a record without raising (only the
\* unknown mode raises, before the loop, C8).
C4_LoopTerminates ==
  /\ iterations <= 100
  /\ pc = "loop" => (i < 100 /\ i = iterations /\ ~BracketWidthBelowThreshold
                     /\ ~ThrowsInvalidMode(inputs))
  /\ pc = "return" => (BracketWidthBelowThreshold \/ iterations = 100)
  /\ (pc # "idle" /\ ~ThrowsInvalidMode(inputs)) => pc # "threw"
  /\ Solved => (solverResult # NoSolverResult /\ solverResult.feerate.k = "num")

C4_Witness ==
  /\ pc = "return"
  /\ targetFeesUsd.k = "nan"
  /\ BracketWidthBelowThreshold
  /\ iterations = 27

\* C6: the solver returns targetMet = true exactly when |gap| <= 0.0025, where
\* gap is the number (fees at the returned feerate - target) / target.
C6_GapIsOfReturnedFeerate ==
  Solved
    => /\ solverResult.targetMet <=> FLe(FAbs(solverResult.gap), R(25, 10000))
       /\ solverResult.gap.k = "num"
       /\ FEq(solverResult.gap, GapAt(solverResult.feerate, inputs))

\* C7: the targetFeesUsd the solver returns is the security budget target
\* divided by 1 + mevUplift, and whenever targetMet is true actualRevenue is
\* the fees at the returned feerate times 1 + mevUplift and is within 0.25% of
\* the security budget target.
C7_RevenueWithinTolerance ==
  Solved
    => /\ SameValue(solverResult.targetFeesUsd,
                    FDiv(securityBudgetTargetUsd(inputs), FAdd(One, inputs.mevUplift)))
       /\ solverResult.targetMet
            => /\ FEq(solverResult.actualRevenue,
                      FMul(feesUsdPerDay(solverResult.feerate, inputs),
                           FAdd(One, inputs.mevUplift)))
               /\ FLe(FAbs(FSub(solverResult.actualRevenue,
                                securityBudgetTargetUsd(inputs))),
                      FMul(R(25, 10000), FAbs(securityBudgetTargetUsd(inputs))))

C7_Witness ==
  /\ Solved
  /\ solverResult.targetMet
  /\ FEq(inputs.mevUplift, R(3, 100))
  /\ ~FEq(solverResult.actualRevenue, securityBudgetTargetUsd(inputs))

\* the value C8 gives for the mode of inputs x
BudgetOfMode(x) ==
  CASE x.securityBudgetMode = "percent_of_2025" -> FMul(x.alpha, x.base2025RevenueUsd)
    [] x.securityBudgetMode = "percent_of_settlement_value" ->
         FMul(x.beta, x.settlementUsdDay)
    [] x.securityBudgetMode = "absolute_usd" -> x.absoluteUsdDay
    [] OTHER -> Undef

\* C8: the security budget target is alpha * base2025RevenueUsd, beta *
\* settlementUsdDay or absoluteUsdDay as the mode says, whatever the fields of
\* the other modes hold; with any other mode the call throws, and the error
\* leaves solveFeerateForTarget and computeFullModel, which return nothing.
C8_BudgetByModeOrThrow ==
  /\ pc # "idle" =>
       (pc = "threw" <=> inputs.securityBudgetMode \notin
                           {"percent_of_2025", "percent_of_settlement_value",
                            "absolute_usd"})
  /\ pc = "threw" => (solverResult = NoSolverResult /\ outputs = NoOutputs)
  /\ pc \in {"loop", "return", "solved", "done"} =>
       SameValue(targetFeesUsd, FDiv(BudgetOfMode(inputs), FAdd(One, inputs.mevUplift)))
  /\ pc = "done" => SameValue(outputs.securityBudgetTargetUSD, BudgetOfMode(inputs))

C8_Witness ==
  /\ pc = "threw"
  /\ inputs.securityBudgetMode = "fixed_usd"
  /\ outputs = NoOutputs

\* a field the mode of inputs x reads is absent
RequiredFieldMissing(x) ==
  \/ x.securityBudgetMode = "absolute_usd" /\ x.absoluteUsdDay.k = "undef"
  \/ x.securityBudgetMode = "percent_of_2025"
       /\ (x.alpha.k = "undef" \/ x.base2025RevenueUsd.k = "undef")
  \/ x.securityBudgetMode = "percent_of_settlement_value"
       /\ (x.beta.k = "undef" \/ x.settlementUsdDay.k = "undef")

\* C9: when a field the active mode requires is missing, the call fails with
\* an error: it does not go on to return a record.
C9_MissingFieldThrows ==
  (pc # "idle" /\ RequiredFieldMissing(inputs)) => pc = "threw"

\* the records of the calls that have returned, the last one included
Results ==
  {log[k] : k \in 1..Len(log)} \cup (IF Returned THEN {CallRecord} ELSE {})

\* C10: calls of computeFullModel with the same inputs and the same
\* includeBlockRewards return the same, whatever calls were made before and
\* between them, and a call in progress leaves its arguments as they are.
C10_SameArgumentsSameResult ==
  /\ [](\A a \in Results, b \in Results :
          (a.inputs = b.inputs /\ a.includeBlockRewards = b.includeBlockRewards)
            => (a.threw = b.threw /\ a.outputs = b.outputs))
  /\ [][~Returned => (inputs' = inputs /\ includeBlockRewards' = includeBlockRewards)]_vars

C10_Witness ==
  /\ Returned
  /\ pc = "done"
  /\ Len(log) = 2
  /\ log[1].inputs = inputs
  /\ log[1].includeBlockRewards = includeBlockRewards
  /\ log[1].outputs = outputs
  /\ log[2].inputs # inputs
  /\ ~log[2].threw
  /\ log[2].outputs # outputs

\* C5 as stated: on any inputs, feesUsdPerDay at the lower of two feerates of
\* [1, 100000] is at most feesUsdPerDay at the higher.
C5_FeesNonDecreasing ==
  probe # NoProbe => FLe(probe.fees1, probe.fees2)

\* C5 amended: on inputs whose elasticity is at least -1, feesUsdPerDay at the
\* lower of two feerates of [1, 100000] is at most feesUsdPerDay at the higher.
C5_FeesNonDecreasingWhenElasticityAtLeastMinusOne ==
  (probe # NoProbe /\ FGe(inputs.elasticity, R(-1, 1)))
    => FLe(probe.fees1, probe.fees2)

C5_Witness ==
  /\ probe # NoProbe
  /\ FEq(inputs.elasticity, R(-1, 1))
  /\ FEq(probe.f1, R(1, 1))
  /\ FEq(probe.f2, R(100000, 1))
  /\ FLt(probe.fees1, probe.fees2)

\* two amounts in USD that differ by no more than the tolerance of the
\* consistency checks of computeFullModel, 0.01
NearlyEqual(actual, expected) ==
  Comparable(actual, expected) /\ ~AssertionFails(actual, expected, R(1, 100))

\* C11: in what computeFullModel returns, the fees per block times 144 are the
\* fees per day, the fees per block in BTC times the price are the fees per
\* block in USD, and the fees per day in BTC times the price are the fees per
\* day in USD, each within 0.01 USD.
C11_FeeIdentities ==
  pc = "done"
    => /\ NearlyEqual(FMul(FeesPerBlockUSD(outputs.dailyFeeRevenueUSD),
                           R(BLOCKS_PER_DAY, 1)),
                      outputs.dailyFeeRevenueUSD)
       /\ NearlyEqual(FMul(outputs.feesPerBlockBTC, inputs.btcPrice),
                      FeesPerBlockUSD(outputs.dailyFeeRevenueUSD))
       /\ NearlyEqual(FMul(outputs.dailyFeeRevenueBTC, inputs.btcPrice),
                      outputs.dailyFeeRevenueUSD)

C11_Witness ==
  /\ pc = "done"
  /\ FGt(outputs.dailyFeeRevenueUSD, R(1000000, 1))
  /\ FGt(outputs.feesPerBlockBTC, Zero)
  /\ FLt(outputs.feesPerBlockBTC, outputs.dailyFeeRevenueBTC)
  /\ "Block fees BTC/USD consistency" \notin warnings

\* C12: a consistency check of computeFullModel that fails only adds a
\* warning: the call goes on to return, and the record it returns is the one
\* computed from the inputs and the solver's result, with or without warnings.
C12_FailedAssertionOnlyWarns ==
  /\ [](pc = "done"
          => outputs = FullModelOutputs(inputs, includeBlockRewards, solverResult))
  /\ [][pc = "solved" => pc' = "done"]_vars

C12_Witness ==
  /\ pc = "done"
  /\ warnings # {}
  /\ outputs = FullModelOutputs(inputs, includeBlockRewards, solverResult)
  /\ outputs # NoOutputs

\* the fees the scenario of the documentation aims at:
\* 0.65 * 100000 * 3.125 * 144 / 1.03 USD per day
ScenarioTargetFeesUsd ==
  FDiv(FMul(R(65, 100), FMul(FMul(R(100000, 1), R(3125, 1000)), R(144, 1))),
       R(103, 100))

\* C13: computeFullModel(inputs, false) on the scenario of the documentation,
\* with or without the optional fields getDefaultInputs adds to it, returns
\* solverInfo.targetMet = true and a dailyFeeRevenueUSD within 0.25% of
\* 0.65 * 100000 * 3.125 * 144 / 1.03.
C13_ScenarioMeetsTarget ==
  (pc = "done" /\ inputs \in {ScenarioInputs, getDefaultInputs} /\ ~includeBlockRewards)
    => /\ outputs.solverInfo.targetMet
       /\ Comparable(outputs.dailyFeeRevenueUSD, ScenarioTargetFeesUsd)
       /\ FLe(FAbs(FSub(outputs.dailyFeeRevenueUSD, ScenarioTargetFeesUsd)),
              FMul(R(25, 10000), ScenarioTargetFeesUsd))

C13_Witness ==
  /\ pc = "done"
  /\ inputs = ScenarioInputs
  /\ ~includeBlockRewards
  /\ outputs.solverInfo.targetMet
  /\ FGt(outputs.optimalFeerate, R(857, 1))
  /\ FLt(outputs.optimalFeerate, R(858, 1))
  /\ FGt(outputs.dailyFeeRevenueUSD, R(28000000, 1))

\* two finished calls that differ in includeBlockRewards only, a with the
\* rewards and b without, both returning a record
RewardsPair(a, b) ==
  /\ a.inputs = b.inputs
  /\ a.includeBlockRewards
  /\ ~b.includeBlockRewards
  /\ ~a.threw
  /\ ~b.threw

SharePair(a, b) ==
  /\ a.inputs = [b.inputs EXCEPT !.poolShare = a.inputs.poolShare]
  /\ FEq(a.inputs.poolShare, FMul(R(2, 1), b.inputs.poolShare))
  /\ a.includeBlockRewards = b.includeBlockRewards
  /\ ~a.threw
  /\ ~b.threw

\* C15: with every other input and includeBlockRewards the same, twice the
\* poolShare gives twice the poolDailyRevenueUSD and twice the
\* poolDailyExpensesUSD, and the same optimalFeerate, networkRevenueUSD and
\* equilibriumHashrateTH.
C15_PoolShareScalesPoolOnly ==
  \A a \in Results, b \in Results :
    SharePair(a, b)
      => /\ FEq(a.outputs.poolDailyRevenueUSD,
                FMul(R(2, 1), b.outputs.poolDailyRevenueUSD))
         /\ FEq(a.outputs.poolDailyExpensesUSD,
                FMul(R(2, 1), b.outputs.poolDailyExpensesUSD))
         /\ FEq(a.outputs.optimalFeerate, b.outputs.optimalFeerate)
         /\ FEq(a.outputs.networkRevenueUSD, b.outputs.networkRevenueUSD)
         /\ FEq(a.outputs.equilibriumHashrateTH, b.outputs.equilibriumHashrateTH)

C15_Witness ==
  /\ Returned
  /\ Len(log) >= 1
  /\ SharePair(CallRecord, log[1])
  /\ FGt(log[1].outputs.poolDailyExpensesUSD, Zero)
  /\ FGt(outputs.poolDailyRevenueUSD, log[1].outputs.poolDailyRevenueUSD)
  /\ FEq(outputs.optimalFeerate, log[1].outputs.optimalFeerate)

\* confirmed is the smaller of demand and the supply of a day, said without
\* Math.min: it exceeds neither, it is one of the two, and it is the demand
\* whenever the demand does not exceed the supply
SmallerOfDemandAndSupply(confirmed, demand, supply) ==
  /\ Comparable(confirmed, demand)
  /\ FLe(confirmed, supply)
  /\ FLe(confirmed, demand)
  /\ FEq(confirmed, demand) \/ FEq(confirmed, supply)
  /\ FLe(demand, supply) => FEq(confirmed, demand)

\* C16: at every feerate confirmedVbPerDay is the smaller of demandVbPerDay at
\* that feerate and blockLimitMB * 1000000 * 144, so never above the supply of
\* a day, and the demand itself whenever the demand is within the supply.
C16_ConfirmedIsMinOfDemandAndSupply ==
  probe # NoProbe
    => /\ SmallerOfDemandAndSupply(probe.confirmed1, probe.demand1,
            FMul(FMul(inputs.blockLimitMB, R(1000000, 1)), R(BLOCKS_PER_DAY, 1)))
       /\ SmallerOfDemandAndSupply(probe.confirmed2, probe.demand2,
            FMul(FMul(inputs.blockLimitMB, R(1000000, 1)), R(BLOCKS_PER_DAY, 1)))

C16_Witness ==
  /\ probe # NoProbe
  /\ FGt(probe.demand1, supplyVbPerDay(inputs))
  /\ FEq(probe.confirmed1, supplyVbPerDay(inputs))
  /\ FLt(probe.demand2, supplyVbPerDay(inputs))
  /\ FEq(probe.confirmed2, probe.demand2)
  /\ FGt(probe.confirmed2, Zero)

\* C17: the poolProfitMargin computeFullModel returns is poolDailyProfitUSD /
\* poolDailyRevenueUSD when the pool revenue is positive, and the number -1
\* when the pool revenue is 0; the call returns in both cases.
C17_PoolProfitMarginSentinel ==
  pc = "done"
    => /\ FGt(outputs.poolDailyRevenueUSD, Zero)
            => FEq(outputs.poolProfitMargin,
                   FDiv(outputs.poolDailyProfitUSD, outputs.poolDailyRevenueUSD))
       /\ FEq(outputs.poolDailyRevenueUSD, Zero)
            => FEq(outputs.poolProfitMargin, R(-1, 1))

C17_Witness ==
  /\ pc = "done"
  /\ FEq(outputs.poolDailyRevenueUSD, Zero)
  /\ FGt(inputs.poolShare, Zero)
  /\ outputs.poolProfitMargin.k = "num"
  /\ FEq(outputs.poolProfitMargin, R(-1, 1))

\* a call that returns a positive pool revenue and its margin
C17_WitnessPositiveRevenue ==
  /\ pc = "done"
  /\ FGt(outputs.poolDailyRevenueUSD, Zero)
  /\ FGt(outputs.poolProfitMargin, Zero)
  /\ FLt(outputs.poolProfitMargin, One)

C18_WitnessFinitePrice ==
  /\ pc = "done"
  /\ FGt(outputs.dailyFeeRevenueBTC, Zero)
  /\ FGt(inputs.poolShare, Zero)
  /\ FGt(outputs.breakEvenBTCPrice, Zero)
  /\ outputs.breakEvenBTCPrice.k = "num"

\* a call with block rewards and no fee revenue: expenses, and no finite price
C18_WitnessNoFees ==
  /\ pc = "done"
  /\ FEq(outputs.dailyFeeRevenueBTC, Zero)
  /\ FGt(outputs.poolDailyExpensesUSD, Zero)
  /\ outputs.breakEvenBTCPrice = Infinity

\* the bracket lies in the search range and is not empty
BracketInRange ==
  /\ FLe(R(SEARCH_FLOOR, 1), lo)
  /\ FLt(lo, hi)
  /\ FLe(hi, R(SEARCH_CEILING, 1))

\* one iteration: the midpoint replaces the upper bound when the fees at it
\* reach the target and the lower bound otherwise, the other bound stays, and
\* the bracket is half as wide as before
BracketStep ==
  /\ FEq(FSub(hi', lo'), FDiv(FSub(hi, lo), R(2, 1)))
  /\ \E mid \in {Midpoint(lo, hi)} :
     \E confirmed \in {confirmedVbPerDay(mid, inputs)} :
     \E feesUsd \in {usd(FDiv(FMul(mid, confirmed), R(SATOSHIS_PER_BTC, 1)),
                         inputs.btcPrice)} :
       IF FGe(feesUsd, targetFeesUsd)
       THEN FEq(hi', mid) /\ FEq(lo', lo)
       ELSE FEq(lo', mid) /\ FEq(hi', hi)

\* what the bounds say when the loop is left: below the target at a lower
\* bound that has moved, at or above it at an upper bound that has moved
FeesBelowTargetAt(feerate) ==
  \E confirmed \in {confirmedVbPerDay(feerate, inputs)} :
  \E feesUsd \in {usd(FDiv(FMul(feerate, confirmed), R(SATOSHIS_PER_BTC, 1)),
                      inputs.btcPrice)} :
    FLt(feesUsd, targetFeesUsd)

FeesReachTargetAt(feerate) ==
  \E confirmed \in {confirmedVbPerDay(feerate, inputs)} :
  \E feesUsd \in {usd(FDiv(FMul(feerate, confirmed), R(SATOSHIS_PER_BTC, 1)),
                      inputs.btcPrice)} :
    FGe(feesUsd, targetFeesUsd)

BracketExit ==
  /\ FEq(lo, R(SEARCH_FLOOR, 1)) \/ FeesBelowTargetAt(lo)
  /\ FEq(hi, R(SEARCH_CEILING, 1)) \/ FeesReachTargetAt(hi)

\* C19: during the loop of the solver 1 <= lo < hi <= 100000; each iteration
\* sets hi to the midpoint if the fees at the midpoint are at least the target
\* and lo to the midpoint otherwise, which changes one bound and halves the
\* width; and if the fees are monotone (elasticity at least -1), then when the
\* loop is left lo = 1 or fees(lo) < target, and hi = 100000 or
\* fees(hi) >= target.
C19_BracketInvariant ==
  /\ [](pc \in {"loop", "return"} => BracketInRange)
  /\ [][pc = "loop" => BracketStep]_vars
  /\ []((pc = "return" /\ FGe(inputs.elasticity, R(-1, 1))) => BracketExit)

\* C19 on every call whose target is a number, whatever the elasticity
BracketInvariantOfNumericTarget ==
  /\ [](pc \in {"loop", "return"} => BracketInRange)
  /\ [][pc = "loop" => BracketStep]_vars
  /\ []((pc = "return" /\ targetFeesUsd.k = "num") => BracketExit)

\* the k-th midpoint evaluated has the smallest gap of all, and a smaller one
\* than every midpoint evaluated before it
SmallestGapAt(k) ==
  /\ \A j \in 1..Len(evaluated) : FLe(evaluated[k].gap, evaluated[j].gap)
  /\ \A j \in 1..(k - 1) : FLt(evaluated[k].gap, evaluated[j].gap)

\* what the solver returns is computed at the k-th midpoint evaluated
ReturnedFrom(k) ==
  /\ FEq(solverResult.feerate, evaluated[k].mid)
  /\ SameValue(solverResult.gap, FinalGap(evaluated[k].feesUsd, targetFeesUsd))
  /\ FEq(solverResult.actualRevenue,
         FMul(evaluated[k].feesUsd, FAdd(One, inputs.mevUplift)))
  /\ FEq(solverResult.confirmedDemandMBDay,
         FDiv(evaluated[k].confirmedVbDay, R(1000000, 1)))

\* C20: the feerate the solver returns is the midpoint with the smallest
\* relative gap |feesUsd - target| / target of all the midpoints the loop
\* evaluated, the earliest of them on ties, and the gap, actualRevenue and
\* confirmedDemandMBDay returned are those computed at that midpoint.
C20_ReturnsBestEvaluatedMidpoint ==
  Solved => \E k \in 1..Len(evaluated) : SmallestGapAt(k) /\ ReturnedFrom(k)

\* C20 on every call whose target is a number other than zero
ReturnsBestEvaluatedMidpointOfNonZeroTarget ==
  (Solved /\ targetFeesUsd.k = "num" /\ ~FEq(targetFeesUsd, Zero))
    => \E k \in 1..Len(evaluated) : SmallestGapAt(k) /\ ReturnedFrom(k)

\* the three derivations of the fees of a day agree on the record returned:
\* computeFullModel's own, feesUsdPerDay at the returned feerate, and the fees
\* the solver kept for that feerate, so that the gap and the revenue the solver
\* reports are those of dailyFeeRevenueUSD
FeeDerivationsAgree ==
  /\ \E fees \in {feesUsdPerDay(outputs.optimalFeerate, inputs)} :
       FEq(outputs.dailyFeeRevenueUSD, fees)
  /\ FEq(outputs.dailyFeeRevenueUSD, bestFeesUsd)
  /\ FEq(outputs.solverInfo.gap,
         FDiv(FSub(outputs.dailyFeeRevenueUSD, outputs.solverInfo.targetFeesUsd),
              outputs.solverInfo.targetFeesUsd))
  /\ FEq(outputs.solverInfo.actualRevenue,
         FMul(outputs.dailyFeeRevenueUSD, FAdd(One, inputs.mevUplift)))

\* C21: in every record computeFullModel returns, dailyFeeRevenueUSD is
\* feesUsdPerDay at optimalFeerate and is the fee value the solver recorded for
\* the feerate it returned, so solverInfo.gap is (dailyFeeRevenueUSD -
\* targetFeesUsd) / targetFeesUsd and solverInfo.actualRevenue is
\* dailyFeeRevenueUSD * (1 + mevUplift).
C21_FeeDerivationsAgree ==
  pc = "done" => FeeDerivationsAgree

\* C21 on every call whose target is a number other than zero
FeeDerivationsAgreeOfNonZeroTarget ==
  (pc = "done" /\ targetFeesUsd.k = "num" /\ ~FEq(targetFeesUsd, Zero))
    => FeeDerivationsAgree

\* the reward of a day the claim names: none without block rewards, and
\* 3.125 BTC for each of the 144 blocks, in USD, with them
ClaimedRewardUsdDay ==
  IF includeBlockRewards
  THEN FMul(FMul(R(3125, 1000), R(BLOCKS_PER_DAY, 1)), inputs.btcPrice)
  ELSE Zero

\* C22: the equilibriumHashrateTH computeFullModel returns is
\* (feesUsdPerDay(optimalFeerate) * (1 + mevUplift) + rewardUsdDay) /
\* (costPerTHDay * (1 + margin)), with rewardUsdDay 0 without block rewards and
\* 3.125 * 144 * btcPrice with them, and is what the function
\* equilibriumHashrateTH returns for optimalFeerate and that reward.
C22_EquilibriumHashrateDerivations ==
  pc = "done"
    => /\ \E fees \in {feesUsdPerDay(outputs.optimalFeerate, inputs)} :
            FEq(outputs.equilibriumHashrateTH,
                FDiv(FAdd(FMul(fees, FAdd(One, inputs.mevUplift)), ClaimedRewardUsdDay),
                     FMul(inputs.costPerTHDay, FAdd(One, inputs.margin))))
       /\ \E h \in {equilibriumHashrateTH(outputs.optimalFeerate, ClaimedRewardUsdDay,
                                          inputs)} :
            FEq(outputs.equilibriumHashrateTH, h)

C22_Witness ==
  /\ pc = "done"
  /\ includeBlockRewards
  /\ FGt(outputs.dailyFeeRevenueUSD, Zero)
  /\ FGt(inputs.mevUplift, Zero)
  /\ FGt(outputs.equilibriumHashrateTH,
         FDiv(ClaimedRewardUsdDay, FMul(inputs.costPerTHDay, FAdd(One, inputs.margin))))

\* C23: the avgConfirmationTimeMin computeFullModel takes from
\* calculateConfirmationTime is 10 when the demand at the feerate is within
\* the supply of a day, whatever the backlog of the inputs, and otherwise the
\* larger of 10 and backlog / supply * 600, where the backlog is the backlogVb
\* of the same record, the backlog of the inputs plus demand minus supply; it
\* is never below 10.
C23_ConfirmationTime ==
  pc = "done"
    => \E supply \in {FMul(FMul(inputs.blockLimitMB, R(1000000, 1)), R(BLOCKS_PER_DAY, 1))} :
         /\ FGe(outputs.avgConfirmationTimeMin, R(10, 1))
         /\ FLe(outputs.demandVbPerDay, supply)
              => FEq(outputs.avgConfirmationTimeMin, R(10, 1))
         /\ FGt(outputs.demandVbPerDay, supply)
              => /\ FEq(outputs.backlogVb,
                        FAdd(inputs.backlogVb, FSub(outputs.demandVbPerDay, supply)))
                 /\ FEq(outputs.avgConfirmationTimeMin,
                        FMax(R(10, 1),
                             FMul(FDiv(outputs.backlogVb, supply), R(600, 1))))

C23_Witness ==
  /\ pc = "done"
  /\ FGt(outputs.demandVbPerDay, supplyVbPerDay(inputs))
  /\ FGt(outputs.avgConfirmationTimeMin, R(10, 1))
  /\ FGt(outputs.backlogVb, inputs.backlogVb)

\* a call whose demand is within the supply and whose inputs carry a backlog
C23_WitnessWithinSupply ==
  /\ pc = "done"
  /\ FLt(outputs.demandVbPerDay, supplyVbPerDay(inputs))
  /\ FGt(inputs.backlogVb, Zero)
  /\ FEq(outputs.avgConfirmationTimeMin, R(10, 1))

\* C24: whenever the solver reports targetMet = true, the check 'Daily fees
\* match solver target' of computeFullModel passes: dailyFeeRevenueUSD is
\* within 1 USD of solverInfo.targetFeesUsd and the warning is not emitted.
C24_MetTargetPassesAssertion ==
  (pc = "done" /\ outputs.solverInfo.targetMet)
    => /\ FLe(FAbs(FSub(outputs.dailyFeeRevenueUSD, outputs.solverInfo.targetFeesUsd)),
              One)
       /\ "Daily fees match solver target" \notin warnings

\* calculateMiningMetrics has returned
MetricsReturned == mining.metrics # NoMetrics

\* the break-even price and the months to return the investment, as C25 has
\* them but for the range of roiMonths: Infinity exactly without BTC revenue
\* and without profit, and capped otherwise
BreakEvenAndRoiSentinels(m) ==
  /\ (m.breakEvenPrice = Infinity) <=> FLe(m.dailyBTCRevenue, Zero)
  /\ FGt(m.dailyBTCRevenue, Zero) => FLe(m.breakEvenPrice, R(10000000, 1))
  /\ (m.roiMonths = Infinity) <=> FLe(m.dailyProfit, Zero)
  /\ FGt(m.dailyProfit, Zero) => FLe(m.roiMonths, R(1200, 1))

NoneIsNaN(m) ==
  /\ m.profitMargin.k \notin NaNKinds
  /\ m.breakEvenPrice.k \notin NaNKinds
  /\ m.roiMonths.k \notin NaNKinds

\* C25 as stated: profitMargin is -100 exactly when dailyRevenue <= 0 and
\* otherwise within [-1000, 1000]; breakEvenPrice is Infinity exactly when the
\* BTC revenue of a day is <= 0 and otherwise at most 10000000; roiMonths is
\* Infinity exactly when dailyProfit <= 0 and otherwise in (0, 1200]; none of
\* the three is NaN.
C25_SentinelsExactlyOnTriggers ==
  MetricsReturned
    => /\ FEq(mining.metrics.profitMargin, R(-100, 1))
            <=> FLe(mining.metrics.dailyRevenue, Zero)
       /\ FGt(mining.metrics.dailyRevenue, Zero)
            => /\ FGe(mining.metrics.profitMargin, R(-1000, 1))
               /\ FLe(mining.metrics.profitMargin, R(1000, 1))
       /\ BreakEvenAndRoiSentinels(mining.metrics)
       /\ FGt(mining.metrics.dailyProfit, Zero) => FGt(mining.metrics.roiMonths, Zero)
       /\ NoneIsNaN(mining.metrics)

\* C25 amended: profitMargin is -100 when dailyRevenue <= 0 and otherwise
\* dailyProfit / dailyRevenue * 100 kept within [-1000, 1000], which is -100 as
\* well when the expenses are twice the revenue; breakEvenPrice is Infinity
\* exactly when the BTC revenue of a day is <= 0 and otherwise at most
\* 10000000; roiMonths is Infinity exactly when dailyProfit <= 0 and otherwise
\* in [0, 1200], 0 exactly when the hardware costs nothing; none of the three
\* is NaN.
C25_SentinelsOnTriggers ==
  MetricsReturned
    => /\ FLe(mining.metrics.dailyRevenue, Zero)
            => FEq(mining.metrics.profitMargin, R(-100, 1))
       /\ FGt(mining.metrics.dailyRevenue, Zero)
            => /\ FGe(mining.metrics.profitMargin, R(-1000, 1))
               /\ FLe(mining.metrics.profitMargin, R(1000, 1))
               /\ FEq(mining.metrics.profitMargin, R(-100, 1))
                    <=> FEq(mining.metrics.dailyExpenses,
                            FMul(R(2, 1), mining.metrics.dailyRevenue))
       /\ BreakEvenAndRoiSentinels(mining.metrics)
       /\ FGt(mining.metrics.dailyProfit, Zero)
            => /\ FGe(mining.metrics.roiMonths, Zero)
               /\ FEq(mining.metrics.roiMonths, Zero)
                    <=> FEq(mining.metrics.totalHardwareCost, Zero)
       /\ NoneIsNaN(mining.metrics)

C25_Witness ==
  /\ MetricsReturned
  /\ FGt(mining.metrics.dailyRevenue, Zero)
  /\ FGt(mining.metrics.totalHardwareCost, Zero)
  /\ FEq(mining.metrics.profitMargin, R(-100, 1))
  /\ mining.metrics.roiMonths = Infinity
  /\ FLt(mining.metrics.breakEvenPrice, R(10000000, 1))

\* calls that return the sentinel of no revenue, a profit with a finite time
\* to return the investment, and a profit on hardware that costs nothing
C25_WitnessNoRevenue ==
  /\ MetricsReturned
  /\ FEq(mining.metrics.dailyRevenue, Zero)
  /\ FEq(mining.metrics.profitMargin, R(-100, 1))
  /\ mining.metrics.breakEvenPrice = Infinity

C25_WitnessProfit ==
  /\ MetricsReturned
  /\ FGt(mining.metrics.dailyProfit, Zero)
  /\ FGt(mining.metrics.roiMonths, Zero)
  /\ FLt(mining.metrics.roiMonths, R(1200, 1))

C25_WitnessFreeHardware ==
  /\ MetricsReturned
  /\ FGt(mining.metrics.dailyProfit, Zero)
  /\ FEq(mining.metrics.roiMonths, Zero)

\* C26: on every input the loop of the solver is left by the test of the
\* bracket width, after exactly 27 iterations, the first after which the
\* width, 99999 / 2^27, is below 0.001; the limit of 100 iterations never ends
\* the search, and the count is the same whatever the inputs and whether or
\* not the target can be reached.
C26_TwentySevenIterations ==
  /\ pc = "loop" => (iterations < 27 /\ i = iterations)
  /\ pc \in {"return", "solved", "done"}
       => /\ iterations = 27
          /\ i + 1 < MAX_ITERATIONS
          /\ BracketWidthBelowThreshold
          /\ FEq(FSub(hi, lo), FDiv(R(SEARCH_CEILING - SEARCH_FLOOR, 1), R(134217728, 1)))
          /\ ~FLt(FMul(R(2, 1), FSub(hi, lo)), R(1, 1000))

C26_Witness ==
  /\ pc = "return"
  /\ iterations = 27
  /\ i = 26
  /\ TargetUnreachable(inputs)
  /\ BracketWidthBelowThreshold

\* the same count on a call whose target is reached
C26_WitnessTargetMet ==
  /\ pc = "done"
  /\ iterations = 27
  /\ outputs.solverInfo.targetMet
  /\ FLt(outputs.optimalFeerate, R(1000, 1))

\* C27: whenever the pool has a revenue (and costPerTHDay * (1 + margin) is
\* positive), the poolProfitMargin computeFullModel returns is
\* margin / (1 + margin), whatever the feerate solved for, the pool share, the
\* price, the MEV uplift and includeBlockRewards; the expenses of the pool are
\* its revenue over 1 + margin.
C27_PoolMarginIsInputMargin ==
  (/\ pc = "done"
   /\ FGt(outputs.poolDailyRevenueUSD, Zero)
   /\ FGt(FMul(inputs.costPerTHDay, FAdd(One, inputs.margin)), Zero))
    => /\ FEq(outputs.poolProfitMargin, FDiv(inputs.margin, FAdd(One, inputs.margin)))
       /\ FEq(outputs.poolDailyExpensesUSD,
              FDiv(outputs.poolDailyRevenueUSD, FAdd(One, inputs.margin)))

C27_Witness ==
  /\ pc = "done"
  /\ includeBlockRewards
  /\ FEq(inputs.poolShare, R(16, 1000))
  /\ FGt(outputs.poolDailyRevenueUSD, Zero)
  /\ FEq(outputs.poolProfitMargin, R(107, 1107))

\* the fields of two returned records that do not derive from the revenue of
\* the network are the same
SameFeeSide(x, y) ==
  /\ SameValue(x.optimalFeerate, y.optimalFeerate)
  /\ SameValue(x.dailyFeeRevenueUSD, y.dailyFeeRevenueUSD)
  /\ SameValue(x.dailyFeeRevenueBTC, y.dailyFeeRevenueBTC)
  /\ SameValue(x.feesPerBlockBTC, y.feesPerBlockBTC)
  /\ SameValue(x.avgFeePerTxUSD, y.avgFeePerTxUSD)
  /\ SameValue(x.demandVbPerDay, y.demandVbPerDay)
  /\ SameValue(x.confirmedVbPerDay, y.confirmedVbPerDay)
  /\ SameValue(x.backlogVb, y.backlogVb)
  /\ SameValue(x.avgConfirmationTimeMin, y.avgConfirmationTimeMin)
  /\ SameValue(x.securityBudgetTargetUSD, y.securityBudgetTargetUSD)
  /\ x.solverInfo = y.solverInfo

\* C28: for the same inputs, computeFullModel returns the same optimalFeerate,
\* dailyFeeRevenueUSD and BTC, feesPerBlockBTC, avgFeePerTxUSD, demandVbPerDay,
\* confirmedVbPerDay, backlogVb, avgConfirmationTimeMin,
\* securityBudgetTargetUSD and solverInfo with includeBlockRewards true and
\* false.
C28_RewardsFlagLeavesFeeSide ==
  \A a \in Results, b \in Results :
    RewardsPair(a, b) => SameFeeSide(a.outputs, b.outputs)

C28_Witness ==
  /\ Returned
  /\ Len(log) >= 1
  /\ RewardsPair(log[1], CallRecord)
  /\ SameFeeSide(log[1].outputs, outputs)
  /\ FGt(outputs.dailyFeeRevenueUSD, Zero)
  /\ FLt(outputs.networkRevenueUSD, log[1].outputs.networkRevenueUSD)


\* a provider price that passes the validation: a number above 1000
Validated(response) == response.status = "ok" /\ response.price > 1000

ProviderPrices ==
  {response.price : response \in {r \in CoinGeckoResponses \cup CoinbaseResponses :
                                    Validated(r)}}

\* what a call of getBitcoinPrice that has returned resolved to
PriceResolution(call) ==
  /\ call.result > 1000
  /\ IF call.fromCache
     THEN /\ call.result \in ProviderPrices
          /\ call.first = NoResponse
          /\ call.second = NoResponse
     ELSE IF Validated(call.first)
     THEN call.result = call.first.price /\ call.second = NoResponse
     ELSE IF Validated(call.second)
     THEN call.result = call.second.price
     ELSE call.result = FallbackPrice /\ call.second # NoResponse

\* Coinbase has been sent a request, or has answered one
CoinbaseContacted(call) == call.pc = "second" \/ call.second # NoResponse

\* C29: a call of getBitcoinPrice is waiting for a provider or has resolved,
\* never rejected; it resolves to a number above 1000, which is the fresh
\* cached price if there was one, else the price of CoinGecko if above 1000,
\* else the price of Coinbase if above 1000, else 100000; Coinbase is
\* contacted only after CoinGecko answered with an error or a price that is
\* not above 1000; and the cached price is always a provider price above
\* 1000, never the fallback constant.
C29_PriceNeverRejectsAndFallsBack ==
  /\ \A c \in Slots :
       pending[c].key = "price" =>
         /\ pending[c].pc \in {"first", "second", "resolved"}
         /\ pending[c].pc = "resolved" => PriceResolution(pending[c])
         /\ CoinbaseContacted(pending[c]) =>
              (pending[c].first # NoResponse /\ ~Validated(pending[c].first))
  /\ cache["price"].present =>
       /\ cache["price"].data \in ProviderPrices
       /\ cache["price"].data > 1000
       /\ cache["price"].data # FallbackPrice

\* both providers failed, the call resolved to 100000 and nothing was cached
C29_Witness ==
  \E c \in Slots :
    /\ pending[c].key = "price"
    /\ pending[c].pc = "resolved"
    /\ pending[c].first.status = "ok"
    /\ pending[c].first.price = 1000
    /\ pending[c].second.status = "error"
    /\ pending[c].result = FallbackPrice
    /\ ~cache["price"].present

\* CoinGecko failed, the price of Coinbase was returned and cached
C29_WitnessCoinbase ==
  \E c \in Slots :
    /\ pending[c].key = "price"
    /\ pending[c].pc = "resolved"
    /\ pending[c].first.status = "error"
    /\ Validated(pending[c].second)
    /\ pending[c].result = 61000
    /\ cache["price"] = [present |-> TRUE, data |-> 61000, timestamp |-> now]

\* a call that the cache answered
C29_WitnessCached ==
  \E c \in Slots :
    /\ pending[c].key = "price"
    /\ pending[c].pc = "resolved"
    /\ pending[c].fromCache
    /\ pending[c].result = 60000


CacheKeys == {"price", "network"}

\* the step is the start of a call of the getter of the key in slot c
CallStarts(c, key) ==
  /\ pending[c].pc \in {"idle", "resolved"}
  /\ pending'[c] # pending[c]
  /\ pending'[c].key = key

\* the step is the return of a call in slot c that had sent requests
FetchReturns(c, key) ==
  /\ pending[c].pc \in {"first", "second"}
  /\ pending[c].key = key
  /\ pending'[c].pc = "resolved"

\* the fetch that returns in this step succeeded: a provider gave a price
\* above 1000, or getNetworkStats reached its end
FetchSucceeded(c, key) ==
  key = "price" => (Validated(pending'[c].first) \/ Validated(pending'[c].second))

\* the entry of the key had been stored less than 30000 ms before the step
YoungerThanTTL(key) ==
  cache[key].present /\ now < cache[key].timestamp + 30000

\* C30: a call of getBitcoinPrice or getNetworkStats that starts while the
\* entry of its key is younger than 30000 ms returns the stored value, sends
\* no request and leaves the cache alone; a call that starts when there is
\* no entry or the entry is 30000 ms old or older sends a request; and a
\* fetch that returns replaces the entry by the value it returns, with the
\* time of the return as timestamp, when it succeeded, and leaves the entry
\* alone when it did not.
C30_CacheServesOnlyWithinTTL ==
  [][\A c \in Slots, key \in CacheKeys :
       /\ (CallStarts(c, key) /\ YoungerThanTTL(key)) =>
            /\ pending'[c].pc = "resolved"
            /\ pending'[c].result = cache[key].data
            /\ pending'[c].requests = 0
            /\ cache' = cache
       /\ (CallStarts(c, key) /\ ~YoungerThanTTL(key)) =>
            /\ pending'[c].pc = "first"
            /\ pending'[c].requests = 1
       /\ (FetchReturns(c, key) /\ FetchSucceeded(c, key)) =>
            cache'[key] = [present |-> TRUE, data |-> pending'[c].result,
                           timestamp |-> now]
       /\ (FetchReturns(c, key) /\ ~FetchSucceeded(c, key)) =>
            cache' = cache]_vars

\* a price stored at time 0 was served at 29999 ms, and the call at 30000 ms
\* fetched and replaced it
C30_Witness ==
  /\ now = 30000
  /\ cache["price"] = [present |-> TRUE, data |-> 60000, timestamp |-> 30000]
  /\ \E c \in Slots, d \in Slots :
       /\ pending[c].key = "price"
       /\ pending[c].pc = "resolved"
       /\ pending[c].fromCache
       /\ pending[d].key = "price"
       /\ pending[d].pc = "resolved"
       /\ pending[d].requests = 1
       /\ pending[d].result = 60000

\* network data stored at time 0 and served at 29999 ms without a request
C30_WitnessServed ==
  /\ now = 29999
  /\ cache["network"].present
  /\ cache["network"].timestamp = 0
  /\ \E c \in Slots :
       /\ pending[c].key = "network"
       /\ pending[c].pc = "resolved"
       /\ pending[c].fromCache
       /\ pending[c].requests = 0
       /\ pending[c].result = cache["network"].data

\* network data stored at time 0, and at 30000 ms a call has sent a request
C30_WitnessExpired ==
  /\ now = 30000
  /\ cache["network"].present
  /\ cache["network"].timestamp = 0
  /\ \E c \in Slots :
       /\ pending[c].key = "network"
       /\ pending[c].pc = "first"

=============================================================================
